---- MODULE Spec2Model ----
(***************************************************************************)
(* raypp: the ask pipeline of src/router/base_route.py (cache lookup,      *)
(* embedding, vector search, completion, cache write, history scheduling)  *)
(* and the history sink of src/services/history.py, as state machines.     *)
(*                                                                         *)
(* Spec        one server process.  `ask` holds no await, so the process   *)
(*             runs a request to its end before it starts the next; the    *)
(*             history write the request scheduled runs once the response  *)
(*             is out.  The cache store is external and shared: entries    *)
(*             expire, and other writers may set any value at any time.    *)
(* SpecHistory direct calls of HistorySaver.save / save_async with every   *)
(*             combination of failing database operations.                 *)
(* SpecChunk   calls of Ingestor._chunk_text, one loop iteration a step.    *)
(* SpecIngest  runs of Ingestor.ingest_files over lists of saved files,    *)
(*             the embedding backend and the vector store failing at will. *)
(* SpecLive    Spec with the handler's steps weakly fair.                  *)
(* SpecConcurrent, SpecHeal  two server processes asking the same question *)
(*             over an empty cache, and over a corrupted entry.            *)
(* SpecDeferred  one server process: uploads through `documents`, the      *)
(*             ingestion they schedule, questions and their history write; *)
(*             the collection of the vector store may or may not exist.    *)
(* SpecKey     the cache keys of pairs of requests.                        *)
(* SpecQuery   calls of query_vectors of app/api/routes.py.                *)
(* SpecSingleton  threads calling RedisClient() or ChromaDBClient() of     *)
(*             app/db together, a thread switch possible at every line.    *)
(***************************************************************************)
EXTENDS Integers, Sequences, FiniteSets, TLC

VARIABLES
    gateway,          \* the class get_redis() hands out: RedisClient | DummyRedis
    store,            \* the cache store: key -> entry
    pc,               \* per server process: the position in the handler it is running
    req,              \* per process: the AskRequest
    redis_client,     \* per process: TRUE when redis_client is not None
    cached,           \* per process: what redis_client.get returned
    query_embedding,  \* per process: the vector embed_text returned
    hits,             \* per process: what qclient.search returned
    answer,           \* per process
    tokens,           \* per process: Optional[int]
    elapsed,          \* per process: milliseconds, measured once at line 195
    setexArg,         \* per process: the arguments of the setex call, if one was made
    failed,           \* per process: the external operations that raised
    trace,            \* per process: the external operations invoked, in order
    result,           \* per process: what the handler produced
    bg,               \* per process: the request's BackgroundTasks, not yet run
    lastSave,         \* per process: the HistorySaver call made there: its arguments, what
                      \* it did on the session, whether it raised
    table,            \* the query_history table: the committed rows, in order
    ck,               \* the call of Ingestor._chunk_text in progress: its arguments and locals
    ing,              \* the run of Ingestor.ingest_files in progress: its locals, the calls
                      \* it made on the embedding backend and on the vector store
    doc,              \* the POST /api/documents request in progress, and its BackgroundTasks
    qdrant,           \* the vector store: the names of the collections that exist
    vq,               \* app/api/routes.py: the Chroma collections that exist, and the last
                      \* POST /vectors/query: its request, its external calls, its outcome
    kp,               \* two ask requests and the cache keys they use
    sng               \* app/db: the singleton class in use (RedisClient or ChromaDBClient),
                      \* its _instance, its lock, the objects and connections made, and
                      \* the threads inside __new__

vars == << gateway, store, pc, req, redis_client, cached, query_embedding,
           hits, answer, tokens, elapsed, setexArg, failed, trace, result, bg,
           lastSave, table, ck, ing, doc, qdrant, vq, kp, sng >>

webVars == << doc, qdrant, vq, kp, sng >>

askVars == << pc, req, redis_client, cached, query_embedding, hits, answer, tokens,
              elapsed, setexArg, failed, trace, result, bg, lastSave >>

-----------------------------------------------------------------------------
(* Bounds *)

MaxHist == 1        \* rows the history table may hold before requests stop arriving
MaxRows == 2        \* rows the history table may hold before direct calls of the saver stop
MaxLen == 5         \* characters of the longest text handed to _chunk_text
MaxWindow == 4      \* the largest chunk_size and the largest overlap
MaxFiles == 2       \* entries of the longest saved_files list
MaxThreads == 3     \* threads that call a singleton class at the same time

(* Program constants *)

CACHE_TTL_SECONDS == 3600
EMBEDDING_DIMENSION == 384

CACHE_PREFIX == "ask"

BATCH_SIZE == 64

-----------------------------------------------------------------------------
(* Values *)

\* Server processes; each runs one handler at a time.
Slots == {1, 2}

\* Optional[int]
None == [none |-> TRUE, v |-> 0]
Some(n) == [none |-> FALSE, v |-> n]

Questions == {"What is X?", "cached?"}
Collections == {"default"}

\* hashlib.sha256(question.encode("utf-8")).hexdigest()[:8]
Sha8(question) ==
    CASE question = "What is X?" -> "b1a0c3c4"
      [] question = "cached?" -> "f513b136"
      [] OTHER -> "00000000"

\* A faulty key that leaves the collection out; C27 rules it out.
cache_key_NoCollection(collection_name, question) == CACHE_PREFIX \o ":" \o Sha8(question)

\* f"{settings.CACHE_PREFIX}:{req.collection_name}:{qid}"
cache_key(collection_name, question) ==
    CACHE_PREFIX \o ":" \o collection_name \o ":" \o Sha8(question)

Keys == { cache_key(c, q) : c \in Collections, q \in Questions }

AskRequests ==
    [question : Questions, collection_name : Collections,
     top_k : {0, 2}, use_cache : BOOLEAN]

NoReq == [question |-> "", collection_name |-> "", top_k |-> 0, use_cache |-> FALSE]

\* The answer bundle: the body of a response and the object cached.
Bundle(a, s, t, ms) == [answer |-> a, sources |-> s, tokens |-> t, time_ms |-> ms]
NoBody == Bundle("", <<>>, None, 0)

-----------------------------------------------------------------------------
(* json.dumps / json.loads of a bundle, on a text of tokens *)

NumTexts == << "0", "1", "2", "3", "4", "5", "6", "7", "8", "9", "10", "11", "12" >>
NumText(n) == NumTexts[n + 1]
IsNumText(t) == \E i \in 1..Len(NumTexts) : NumTexts[i] = t
TextNum(t) == (CHOOSE i \in 1..Len(NumTexts) : NumTexts[i] = t) - 1

TokText(t) == IF t.none THEN "null" ELSE NumText(t.v)
IsTokText(t) == t = "null" \/ IsNumText(t)
TextTok(t) == IF t = "null" THEN None ELSE Some(TextNum(t))

\* json.dumps({"answer": answer, "sources": sources, "tokens": tokens, "time_ms": elapsed})
json_dumps(b) ==
    << "{", "answer", b.answer, "sources", "[" >> \o b.sources \o
    << "]", "tokens", TokText(b.tokens), "time_ms", NumText(b.time_ms), "}" >>

\* json.loads: [ok, obj]; ok is FALSE where json.loads raises
json_loads(s) ==
    LET n == Len(s)
        wellformed ==
            /\ n >= 11
            /\ s[1] = "{" /\ s[2] = "answer" /\ s[4] = "sources" /\ s[5] = "["
            /\ s[n - 5] = "]" /\ s[n - 4] = "tokens" /\ IsTokText(s[n - 3])
            /\ s[n - 2] = "time_ms" /\ IsNumText(s[n - 1]) /\ s[n] = "}"
    IN  IF wellformed
        THEN [ok |-> TRUE,
              obj |-> Bundle(s[3], SubSeq(s, 6, n - 6), TextTok(s[n - 3]), TextNum(s[n - 1]))]
        ELSE [ok |-> FALSE, obj |-> NoBody]

-----------------------------------------------------------------------------
(* Results of a handler *)

NoResult == [kind |-> "none", status |-> 0, detail |-> "", body |-> NoBody]
\* return {...}: FastAPI answers 200 with the body
Ok(body) == [kind |-> "ok", status |-> 200, detail |-> "", body |-> body]
\* raise HTTPException(status_code=500, detail=f"<stage> error: ...")
HTTPException(stage) == [kind |-> "HTTPException", status |-> 500, detail |-> stage, body |-> NoBody]
\* an exception that leaves the handler: the server's generic 500
Unhandled == [kind |-> "unhandled", status |-> 500, detail |-> "Internal Server Error", body |-> NoBody]

-----------------------------------------------------------------------------
(* The cache store *)

\* An entry: the value, the time-to-live it was written with, and (for the record
\* only, no code reads it) the body returned by the ask that wrote it, once returned.
Absent == [present |-> FALSE, val |-> <<>>, ttl |-> 0, origin |-> NoResult]
Entry(v, ttl) == [present |-> TRUE, val |-> v, ttl |-> ttl, origin |-> NoResult]

\* What another writer may leave under a key: a bundle, a truncated text, an empty string.
PreBundle == Bundle("from cache", << "s1" >>, Some(1), 0)
Truncated == << "{", "answer" >>
ForeignValues == { json_dumps(PreBundle), Truncated, <<>> }

\* Python truthiness of what get returned: None and "" are falsy
Truthy(entry) == entry.present /\ Len(entry.val) > 0

-----------------------------------------------------------------------------
(* Retrieval, prompt and completion *)

Hit(id, text, content, filename, source) ==
    [id |-> id, payload |-> [text |-> text, content |-> content,
                             filename |-> filename, source |-> source]]

\* The collection's points in similarity order; "" stands for a key the payload lacks.
Ranked(collection_name) ==
    << Hit("1", "Context about X", "", "a.txt", ""),
       Hit("2", "", "More context about X", "", ""),
       Hit("3", "Third", "", "", "notes") >>

Min(a, b) == IF a < b THEN a ELSE b

\* qclient.search(collection_name=..., query_vector=..., limit=top_k, with_payload=True)
search(collection_name, query_vector, limit) ==
    SubSeq(Ranked(collection_name), 1, Min(limit, Len(Ranked(collection_name))))

Or(a, b) == IF a # "" THEN a ELSE b

\* payload.get("text") or payload.get("content") or ""
ContextOf(h) == Or(h.payload.text, Or(h.payload.content, ""))
\* payload.get("filename") or payload.get("source") or str(getattr(h, "id", ""))
SourceOf(h) == Or(h.payload.filename, Or(h.payload.source, h.id))

\* A faulty loop that lists the sources last hit first; C28 rules it out.
sources_Reversed(hs) == [i \in 1..Len(hs) |-> SourceOf(hs[Len(hs) + 1 - i])]

contexts(hs) == [i \in 1..Len(hs) |-> ContextOf(hs[i])]
sources(hs) == [i \in 1..Len(hs) |-> SourceOf(hs[i])]

Preamble == "You are a helpful assistant. Use only the following sources to answer the question. If the answer is not found, say you don't know."

RECURSIVE Passages(_, _)
Passages(cs, i) ==
    IF i > Len(cs) THEN <<>>
    ELSE << "Source " \o NumText(i) \o ":", cs[i] >> \o Passages(cs, i + 1)

\* build_prompt, as the lines of the prompt
build_prompt(question, cs) ==
    << Preamble >> \o Passages(cs, 1) \o << "Question: " \o question, "Answer:" >>

\* The completion backend at temperature 0: the content it returns for a prompt.
Completion(prompt) == "Re " \o prompt[Len(prompt) - 1]

FallbackVec(text) == [kind |-> "fallback", dim |-> EMBEDDING_DIMENSION, num |-> Len(text)]
RemoteVec == [kind |-> "remote", dim |-> EMBEDDING_DIMENSION, num |-> 10]
NoVec == [kind |-> "none", dim |-> 0, num |-> 0]

NoSetex == [called |-> FALSE, key |-> "", ttl |-> 0, value |-> <<>>]

Key(r) == cache_key(req[r].collection_name, req[r].question)

-----------------------------------------------------------------------------
(* The history sink: src/services/history.py *)

\* Optional[List[str]]
NoList == [none |-> TRUE, v |-> <<>>]
SomeList(s) == [none |-> FALSE, v |-> s]

HistoryArgs(q, a, t, s) == [question |-> q, answer |-> a, tokens |-> t, sources |-> s]
NoArgs == HistoryArgs("", "", None, NoList)

\* QueryHistory(question=question, answer=answer, tokens=tokens, sources=sources or [])
QueryHistory(args) ==
    [question |-> args.question, answer |-> args.answer, tokens |-> args.tokens,
     sources |-> IF args.sources.none THEN <<>> ELSE args.sources.v]

\* The database operations of one write; F holds those that raise.
FailPoints == {"open", "add", "commit", "rollback", "close"}

\* A faulty _save_sync that keeps the row although the commit failed; C9 rules it out.
_save_sync_KeepsUncommitted(tbl, args, F) ==
    IF "open" \in F
    THEN [table |-> tbl, raised |-> TRUE, opened |-> 0, adds |-> 0, commits |-> 0,
          rollbacks |-> 0, closes |-> 0, closed |-> 0]
    ELSE LET addOk == "add" \notin F
             commitOk == addOk /\ "commit" \notin F
         IN  [table |-> IF addOk THEN Append(tbl, QueryHistory(args)) ELSE tbl,
              raised |-> "close" \in F,
              opened |-> 1,
              adds |-> 1,
              commits |-> IF addOk THEN 1 ELSE 0,
              rollbacks |-> IF commitOk THEN 0 ELSE 1,
              closes |-> 1,
              closed |-> IF "close" \in F THEN 0 ELSE 1]

\* A faulty _save_sync that closes the session at the end of the try block, not in a
\* finally clause; C34 rules it out.
_save_sync_NoFinally(tbl, args, F) ==
    IF "open" \in F
    THEN [table |-> tbl, raised |-> TRUE, opened |-> 0, adds |-> 0, commits |-> 0,
          rollbacks |-> 0, closes |-> 0, closed |-> 0]
    ELSE LET addOk == "add" \notin F
             commitOk == addOk /\ "commit" \notin F
         IN  [table |-> IF commitOk THEN Append(tbl, QueryHistory(args)) ELSE tbl,
              raised |-> FALSE,
              opened |-> 1,
              adds |-> 1,
              commits |-> IF addOk THEN 1 ELSE 0,
              rollbacks |-> IF commitOk THEN 0 ELSE 1,
              closes |-> IF commitOk THEN 1 ELSE 0,
              closed |-> IF commitOk /\ "close" \notin F THEN 1 ELSE 0]

\* HistorySaver._save_sync: the table afterwards, the calls made on the session,
\* and whether an exception leaves the method.
_save_sync(tbl, args, F) ==
    IF "open" \in F
    THEN \* self.SessionLocal() stands before the try
         [table |-> tbl, raised |-> TRUE, opened |-> 0, adds |-> 0, commits |-> 0,
          rollbacks |-> 0, closes |-> 0, closed |-> 0]
    ELSE LET addOk == "add" \notin F
             commitOk == addOk /\ "commit" \notin F
         IN  [table |-> IF commitOk THEN Append(tbl, QueryHistory(args)) ELSE tbl,
              \* finally: session.close() is not guarded
              raised |-> "close" \in F,
              opened |-> 1,
              adds |-> 1,
              commits |-> IF addOk THEN 1 ELSE 0,
              rollbacks |-> IF commitOk THEN 0 ELSE 1,
              closes |-> 1,
              closed |-> IF "close" \in F THEN 0 ELSE 1]

\* HistorySaver.save: _save_sync, nothing caught
save(tbl, args, F) == _save_sync(tbl, args, F)

\* HistorySaver.save_async: try: await asyncio.to_thread(self._save_sync, ...) except Exception: pass
save_async(tbl, args, F) == [_save_sync(tbl, args, F) EXCEPT !.raised = FALSE]

\* The record of a call: rows is the number of rows the table held when it was made.
SaveRecord(fn, args, rows, out) ==
    [fn |-> fn, args |-> args, rows |-> rows, raised |-> out.raised, opened |-> out.opened,
     adds |-> out.adds, commits |-> out.commits, rollbacks |-> out.rollbacks,
     closes |-> out.closes, closed |-> out.closed]

NoSave == [fn |-> "none", args |-> NoArgs, rows |-> 0, raised |-> FALSE, opened |-> 0, adds |-> 0,
           commits |-> 0, rollbacks |-> 0, closes |-> 0, closed |-> 0]

-----------------------------------------------------------------------------
(* Ingestor._chunk_text: src/services/ingest.py *)

\* A text is the sequence of its characters; Text(L) has L characters, all different.
Text(L) == [i \in 1..L |-> i]

\* A faulty slice that loses the last character of every window; C15 rules it out.
Slice_DropsLast(text, a, b) == SubSeq(text, a + 1, Min(b, Len(text)) - 1)

\* text[a:b] for 0 <= a and 0 <= b
Slice(text, a, b) == SubSeq(text, a + 1, Min(b, Len(text)))

\* A faulty advance that forgets the overlap; C16 rules it out.
NextStart_NoOverlap(end, overlap) == end

\* Lines 54-56: start = end - self.overlap; if start < 0: start = 0
NextStart(end, overlap) == IF end - overlap < 0 THEN 0 ELSE end - overlap

\* What _chunk_text returns for overlap < chunk_size: the loop of lines 50-58 starts a
\* window at 0 and at every NextStart(start + chunk_size, overlap) = start + step below
\* len(text).  (ChunkStep below runs the loop itself, one iteration a step, for every
\* chunk_size and overlap.)
_chunk_text(text, chunk_size, overlap) ==
    LET step == NextStart(chunk_size, overlap)
        n == (Len(text) + step - 1) \div step
    IN  [k \in 1..n |-> Slice(text, (k - 1) * step, (k - 1) * step + chunk_size)]

-----------------------------------------------------------------------------
(* Ingestor.ingest_files: src/services/ingest.py *)

\* raw.decode("utf-8", errors="ignore"): the bytes that do not decode (0 here) are dropped
decode(raw) == SelectSeq(raw, LAMBDA b : b # 0)

\* An entry of saved_files with what the file system holds for it.
\* path "" is an entry without a path; fs: "ok" | "absent" | "unreadable" (read raises)
SavedFile(filename, path, fs, raw) == [filename |-> filename, path |-> path, fs |-> fs, raw |-> raw]

\* Line 84: if not path or not os.path.exists(path): continue
Skipped(f) == f.path = "" \/ f.fs = "absent"

\* Lines 86-91: the text of the file, "" when open or read raises
read_text(f) == IF f.fs = "ok" THEN decode(f.raw) ELSE <<>>

\* Lines 61-70: the vector _embed returns when the call does not raise
\* remote: the API key is set and the openai module is there
_embed(text, remote) == IF remote THEN RemoteVec ELSE FallbackVec(text)

\* Lines 97-99: uuid4().hex is an identifier no other point has: here the position of the
\* file in saved_files and the index of the chunk
PointStruct(fi, filename, i, chunk, emb) ==
    [id |-> << fi, i >>, vector |-> emb,
     payload |-> [filename |-> filename, chunk_index |-> i, text |-> chunk]]

\* A faulty test that lets a batch grow to 65 points; C11 rules it out.
ShouldFlush_Late(points) == Len(points) > BATCH_SIZE

\* Line 103: if len(points) >= 64
ShouldFlush(points) == Len(points) >= BATCH_SIZE

\* A faulty count, of the batches and not of the points; C12 rules it out.
Counted_Batches(total, points) == total + 1

\* Lines 105, 110: total += len(points)
Counted(total, points) == total + Len(points)

\* A faulty skip that leaves the loop; C13 rules it out.
AfterSkip_Break(fi, n) == n + 1

\* Line 85: continue, with the next of the n entries
AfterSkip(fi, n) == fi + 1

NoIngest == [pc |-> "idle", chunk_size |-> 0, overlap |-> 0, remote |-> FALSE,
             saved_files |-> <<>>, fi |-> 0, chunks |-> <<>>, ci |-> 0, points |-> <<>>,
             total |-> 0, embeds |-> <<>>, upserts |-> <<>>, error |-> "",
             result |-> [status |-> "", inserted |-> 0]]

\* POST /api/documents at rest: no form read, nothing saved, no task, no response
NoDocuments == [pc |-> "idle", form |-> <<>>, saved |-> <<>>, tasks |-> <<>>,
                failed |-> {}, result |-> NoResult]

NoChunking == [pc |-> "idle", text |-> <<>>, chunk_size |-> 0, overlap |-> 0,
               start |-> 0, chunks |-> <<>>, more |-> 0]

-----------------------------------------------------------------------------
(* Initial state *)

Init ==
    /\ gateway \in {"RedisClient", "DummyRedis"}
    /\ store = [k \in Keys |-> Absent]
    /\ pc = [r \in Slots |-> "idle"]
    /\ req = [r \in Slots |-> NoReq]
    /\ redis_client = [r \in Slots |-> FALSE]
    /\ cached = [r \in Slots |-> Absent]
    /\ query_embedding = [r \in Slots |-> NoVec]
    /\ hits = [r \in Slots |-> <<>>]
    /\ answer = [r \in Slots |-> ""]
    /\ tokens = [r \in Slots |-> None]
    /\ elapsed = [r \in Slots |-> 0]
    /\ setexArg = [r \in Slots |-> NoSetex]
    /\ failed = [r \in Slots |-> {}]
    /\ trace = [r \in Slots |-> <<>>]
    /\ result = [r \in Slots |-> NoResult]
    /\ bg = [r \in Slots |-> <<>>]
    /\ lastSave = [r \in Slots |-> NoSave]
    /\ table = <<>>
    /\ ck = NoChunking
    /\ ing = NoIngest
    /\ doc = NoDocuments
    /\ qdrant = {}
    /\ vq = [pc |-> "idle", collections |-> {}, before |-> {}, calls |-> <<>>,
             request |-> [collection_name |-> "", query_texts |-> NoList,
                          query_embeddings |-> NoList, n_results |-> 0],
             result |-> NoResult]
    /\ kp = [first |-> NoReq, second |-> NoReq, key1 |-> "", key2 |-> ""]
    /\ sng = [cls |-> "", instance |-> 0, lock |-> 0, made |-> 0, conns |-> 0, clients |-> {},
              th |-> [t \in 1..MaxThreads |->
                         [pc |-> "idle", got |-> 0, ready |-> FALSE, ok |-> FALSE]]]

-----------------------------------------------------------------------------
(* The cache store's own steps *)

\* An entry's time-to-live runs out.
Expire(k) ==
    /\ store[k].present
    /\ store' = [store EXCEPT ![k] = Absent]
    /\ UNCHANGED << webVars, ck, ing, gateway, askVars, table >>

\* Another writer sets the key.
ForeignSet(k, v) ==
    /\ store[k] # Entry(v, CACHE_TTL_SECONDS)
    /\ store' = [store EXCEPT ![k] = Entry(v, CACHE_TTL_SECONDS)]
    /\ UNCHANGED << webVars, ck, ing, gateway, askVars, table >>

\* The methods of the class get_redis() hands out: src/database/redis_client.py
\* defines get, set, delete and ping; the tests' doubles define get, setex, delete.
HasSetex(g) == g = "DummyRedis"

-----------------------------------------------------------------------------
(* POST /api/ask: src/router/base_route.py, ask *)

\* A faulty handler in which a failing setex ends the request; C6 rules it out.
OnRaise_SetexFatal(op) ==
    CASE op = "QdrantClient" -> Unhandled
      [] op = "search" -> HTTPException("Qdrant search error")
      [] op = "ChatCompletion.create" -> HTTPException("OpenAI error")
      [] op = "setex" -> HTTPException("Redis set error")
      [] OTHER -> NoResult

\* A faulty handler in which a failing HistorySaver() ends the request; C7 rules it out.
OnRaise_HistoryFatal(op) ==
    CASE op = "QdrantClient" -> Unhandled
      [] op = "search" -> HTTPException("Qdrant search error")
      [] op = "ChatCompletion.create" -> HTTPException("OpenAI error")
      [] op = "HistorySaver" -> HTTPException("History error")
      [] OTHER -> NoResult

\* A faulty handler in which a failing remote embedding ends the request; C26 rules it out.
OnRaise_EmbeddingFatal(op) ==
    CASE op = "QdrantClient" -> Unhandled
      [] op = "search" -> HTTPException("Qdrant search error")
      [] op = "ChatCompletion.create" -> HTTPException("OpenAI error")
      [] op = "Embedding.create" -> HTTPException("Embedding error")
      [] OTHER -> NoResult

\* A faulty handler that logs a failing completion and goes on; C29 rules it out.
OnRaise_CompletionSwallowed(op) ==
    CASE op = "QdrantClient" -> Unhandled
      [] op = "search" -> HTTPException("Qdrant search error")
      [] OTHER -> NoResult

\* What the handler produces when an external operation raises; NoResult where the
\* except clause logs and the handler goes on.
OnRaise(op) ==
    CASE op = "QdrantClient" -> Unhandled                               \* lines 124-131: no try
      [] op = "search" -> HTTPException("Qdrant search error")           \* lines 161-163
      [] op = "ChatCompletion.create" -> HTTPException("OpenAI error")   \* lines 191-193
      [] op = "get_redis" -> NoResult                                    \* lines 93-95
      [] op = "get" -> NoResult                                          \* lines 119-120
      [] op = "delete" -> NoResult                                       \* lines 112-113
      [] op = "Embedding.create" -> NoResult                             \* lines 143-145
      [] op = "setex" -> NoResult                                        \* lines 206-207
      [] op = "HistorySaver" -> NoResult                                 \* lines 218-220
      [] op = "add_task" -> NoResult                                     \* lines 218-220

Call(r, op) == trace' = [trace EXCEPT ![r] = Append(@, op)]

\* op raised: the handler ends with OnRaise(op), or goes on at `next`
Raised(r, op, next) ==
    /\ failed' = [failed EXCEPT ![r] = @ \cup {op}]
    /\ result' = [result EXCEPT ![r] = OnRaise(op)]
    /\ pc' = [pc EXCEPT ![r] = IF OnRaise(op) = NoResult THEN next ELSE "done"]

Returned(r, next) ==
    /\ pc' = [pc EXCEPT ![r] = next]
    /\ UNCHANGED << failed, result >>

\* A faulty handler that, asked to use the cache and given no client, waits for one;
\* C19 rules it out.
AfterBegin_WaitsForClient(use_cache, client) ==
    IF use_cache /\ client THEN "cache_check"
    ELSE IF use_cache THEN "cache_wait"
    ELSE "clients"

\* A faulty handler that looks the key up whenever it has a client; C24 rules it out.
AfterBegin_AlwaysLooksUp(use_cache, client) == IF client THEN "cache_check" ELSE "clients"

\* Lines 100-101: the test that guards the lookup
AfterBegin(use_cache, client) == IF use_cache /\ client THEN "cache_check" ELSE "clients"

\* Lines 84-101: qid, start, get_redis(), cache_key.
\* redis: "ok" | "raise" (get_redis() raised) | "missing" (get_redis is None)
AskBegin(r, rq, redis) ==
    /\ pc[r] = "idle"
    /\ Len(table) < MaxHist
    /\ req' = [req EXCEPT ![r] = rq]
    /\ redis_client' = [redis_client EXCEPT ![r] = (redis = "ok")]
    /\ IF redis = "missing" THEN UNCHANGED trace ELSE Call(r, "get_redis")
    /\ IF redis = "raise"
       THEN Raised(r, "get_redis", AfterBegin(rq.use_cache, FALSE))
       ELSE Returned(r, AfterBegin(rq.use_cache, redis = "ok"))
    /\ UNCHANGED << webVars, ck, ing, gateway, store, cached, query_embedding, hits, answer, tokens,
                    elapsed, setexArg, bg, lastSave, table >>

\* A faulty lookup that goes on to the miss path although the value parsed; C1 rules it out.
OnCached_IgnoresHit(entry) ==
    IF ~Truthy(entry) THEN "clients"
    ELSE IF json_loads(entry.val).ok THEN "clients"
    ELSE "cache_delete"

\* A faulty lookup that asks the cache again after a miss; C18 rules it out.
OnCached_RetriesMiss(entry) ==
    IF ~Truthy(entry) THEN "cache_check"
    ELSE IF json_loads(entry.val).ok THEN "done"
    ELSE "cache_delete"

\* A faulty lookup that leaves a corrupted entry where it is; C4 rules it out.
OnCached_KeepsCorrupt(entry) ==
    IF ~Truthy(entry) THEN "clients"
    ELSE IF json_loads(entry.val).ok THEN "done"
    ELSE "clients"

\* Lines 104-118: what follows from the value get returned
OnCached(entry) ==
    IF ~Truthy(entry) THEN "clients"                    \* cache miss
    ELSE IF json_loads(entry.val).ok THEN "done"        \* return resp_obj
    ELSE "cache_delete"                                 \* corrupted: delete it and continue

\* Lines 102-120: redis_client.get(cache_key).
CacheGet(r, raises) ==
    /\ pc[r] = "cache_check"
    /\ Call(r, "get")
    /\ IF raises
       THEN /\ Raised(r, "get", "clients")
            /\ UNCHANGED cached
       ELSE /\ cached' = [cached EXCEPT ![r] = store[Key(r)]]
            /\ pc' = [pc EXCEPT ![r] = OnCached(store[Key(r)])]
            /\ result' = [result EXCEPT ![r] =
                    IF OnCached(store[Key(r)]) = "done"
                    THEN Ok(json_loads(store[Key(r)].val).obj) ELSE @]
            /\ UNCHANGED failed
    /\ UNCHANGED << webVars, ck, ing, gateway, store, req, redis_client, query_embedding, hits, answer,
                    tokens, elapsed, setexArg, bg, lastSave, table >>

\* Lines 110-113: redis_client.delete(cache_key).
CacheDelete(r, raises) ==
    /\ pc[r] = "cache_delete"
    /\ Call(r, "delete")
    /\ IF raises
       THEN /\ Raised(r, "delete", "clients")
            /\ UNCHANGED store
       ELSE /\ Returned(r, "clients")
            /\ store' = [store EXCEPT ![Key(r)] = Absent]
    /\ UNCHANGED << webVars, ck, ing, gateway, req, redis_client, cached, query_embedding, hits, answer,
                    tokens, elapsed, setexArg, bg, lastSave, table >>

\* Lines 124-131: QdrantClient(...).
BuildClient(r, raises) ==
    /\ pc[r] = "clients"
    /\ Call(r, "QdrantClient")
    /\ IF raises THEN Raised(r, "QdrantClient", "embed") ELSE Returned(r, "embed")
    /\ UNCHANGED << webVars, ck, ing, gateway, store, req, redis_client, cached, query_embedding, hits,
                    answer, tokens, elapsed, setexArg, bg, lastSave, table >>

\* Lines 134-148: embed_text. remote: "ok" | "raise" | "off" (no API key, or no openai module)
embed_text(text, remote) == IF remote = "ok" THEN RemoteVec ELSE FallbackVec(text)

\* Lines 151-155: embed_text catches what the remote call raises, so the handler's own
\* except branch has nothing to catch.
Embed(r, remote) ==
    /\ pc[r] = "embed"
    /\ IF remote = "off" THEN UNCHANGED trace ELSE Call(r, "Embedding.create")
    /\ IF remote = "raise" THEN Raised(r, "Embedding.create", "search") ELSE Returned(r, "search")
    /\ query_embedding' = [query_embedding EXCEPT ![r] = embed_text(req[r].question, remote)]
    /\ UNCHANGED << webVars, ck, ing, gateway, store, req, redis_client, cached, hits, answer, tokens,
                    elapsed, setexArg, bg, lastSave, table >>

\* Lines 158-174: qclient.search, then contexts, sources and the prompt.
Search(r, raises) ==
    /\ pc[r] = "search"
    /\ Call(r, "search")
    /\ IF raises
       THEN /\ Raised(r, "search", "complete")
            /\ UNCHANGED hits
       ELSE /\ Returned(r, "complete")
            /\ hits' = [hits EXCEPT ![r] =
                            search(req[r].collection_name, query_embedding[r], req[r].top_k)]
    /\ UNCHANGED << webVars, ck, ing, gateway, store, req, redis_client, cached, query_embedding, answer,
                    tokens, elapsed, setexArg, bg, lastSave, table >>

\* Lines 178-196: openai.ChatCompletion.create, the answer, the usage, the elapsed time.
\* usage: the total_tokens the backend reports, None when it reports none.
Complete(r, raises, usage, ms) ==
    /\ pc[r] = "complete"
    /\ Call(r, "ChatCompletion.create")
    /\ IF raises
       THEN /\ Raised(r, "ChatCompletion.create", "cache_write")
            /\ UNCHANGED << answer, tokens, elapsed >>
       ELSE /\ Returned(r, "cache_write")
            /\ answer' = [answer EXCEPT ![r] =
                            Completion(build_prompt(req[r].question, contexts(hits[r])))]
            /\ tokens' = [tokens EXCEPT ![r] = usage]
            /\ elapsed' = [elapsed EXCEPT ![r] = ms]
    /\ UNCHANGED << webVars, ck, ing, gateway, store, req, redis_client, cached, query_embedding, hits,
                    setexArg, bg, lastSave, table >>

\* A faulty response that measures the elapsed time again after the cache write; C3 rules it out.
response_body_Restamped(a, s, t, ms) == Bundle(a, s, t, ms + 1)
\* A faulty history call that drops the token count; C10 rules it out.
history_args_NoTokens(q, a, t, s) == HistoryArgs(q, a, None, SomeList(s))

\* Line 201: the bundle cached
cache_bundle(a, s, t, ms) == Bundle(a, s, t, ms)
\* Line 222: the body returned
response_body(a, s, t, ms) == Bundle(a, s, t, ms)
\* Line 216: the arguments of the history write
history_args(q, a, t, s) == HistoryArgs(q, a, t, SomeList(s))

CacheValue(r) == json_dumps(cache_bundle(answer[r], sources(hits[r]), tokens[r], elapsed[r]))
Body(r) == response_body(answer[r], sources(hits[r]), tokens[r], elapsed[r])

\* A faulty store that keeps the entry it has; C20 rules it out.
setex_IfAbsent(st, key, ttl, value) ==
    IF st[key].present THEN st ELSE [st EXCEPT ![key] = Entry(value, ttl)]

\* setex(key, ttl, value) on the store: the entry is set, whatever was there
setex(st, key, ttl, value) == [st EXCEPT ![key] = Entry(value, ttl)]

\* Lines 199-210: redis_client.setex(cache_key, settings.CACHE_TTL_SECONDS, cache_value).
CacheWrite(r, raises) ==
    /\ pc[r] = "cache_write"
    /\ IF ~(req[r].use_cache /\ redis_client[r])
       THEN /\ Returned(r, "history")
            /\ UNCHANGED << store, setexArg, trace >>
       ELSE IF ~HasSetex(gateway)
            THEN \* AttributeError: the client has no setex
                 /\ Raised(r, "setex", "history")
                 /\ UNCHANGED << store, setexArg, trace >>
            ELSE /\ Call(r, "setex")
                 /\ setexArg' = [setexArg EXCEPT ![r] =
                        [called |-> TRUE, key |-> Key(r), ttl |-> CACHE_TTL_SECONDS,
                         value |-> CacheValue(r)]]
                 /\ IF raises
                    THEN /\ Raised(r, "setex", "history")
                         /\ UNCHANGED store
                    ELSE /\ Returned(r, "history")
                         /\ store' = setex(store, Key(r), CACHE_TTL_SECONDS, CacheValue(r))
    /\ UNCHANGED << webVars, ck, ing, gateway, req, redis_client, cached, query_embedding, hits, answer,
                    tokens, elapsed, bg, lastSave, table >>

\* Lines 213-222: HistorySaver(), background_tasks.add_task(saver.save_async, ...), return.
\* fails: "no" | "HistorySaver" | "add_task"
HistorySchedule(r, fails) ==
    /\ pc[r] = "history"
    /\ trace' = [trace EXCEPT ![r] =
                    @ \o IF fails = "HistorySaver" THEN << "HistorySaver" >>
                         ELSE << "HistorySaver", "add_task" >>]
    /\ IF fails # "no" /\ OnRaise(fails) # NoResult
       THEN /\ Raised(r, fails, "done")
            /\ UNCHANGED << bg, store >>
       ELSE /\ failed' = [failed EXCEPT ![r] = IF fails = "no" THEN @ ELSE @ \cup {fails}]
            /\ bg' = [bg EXCEPT ![r] =
                        IF fails = "no"
                        THEN Append(@, history_args(req[r].question, answer[r], tokens[r],
                                                    sources(hits[r])))
                        ELSE @]
            /\ result' = [result EXCEPT ![r] = Ok(Body(r))]
            \* the record of who wrote the entry, kept with the entry
            /\ store' = IF /\ setexArg[r].called
                           /\ store[Key(r)] = Entry(setexArg[r].value, setexArg[r].ttl)
                        THEN [store EXCEPT ![Key(r)].origin = Ok(Body(r))]
                        ELSE store
            /\ pc' = [pc EXCEPT ![r] = "done"]
    /\ UNCHANGED << webVars, ck, ing, gateway, req, redis_client, cached, query_embedding, hits, answer,
                    tokens, elapsed, setexArg, lastSave, table >>

\* A faulty server that runs a task as soon as it is enqueued; C21 rules it out.
BackgroundReady_Eager(p) == p # "idle"

\* BackgroundTasks: the tasks added by a handler run once its response is out
BackgroundReady(p) == p \in {"done", "responded"}

\* Starlette runs the response's background tasks once the response is sent:
\* await saver.save_async(question, answer, tokens, sources).
RunHistoryTask(r, F) ==
    /\ BackgroundReady(pc[r])
    /\ bg[r] # <<>>
    /\ LET out == save_async(table, Head(bg[r]), F)
       IN  /\ table' = out.table
           /\ lastSave' = [lastSave EXCEPT ![r] = SaveRecord("save_async", Head(bg[r]), Len(table), out)]
    /\ bg' = [bg EXCEPT ![r] = Tail(@)]
    /\ UNCHANGED << webVars, ck, ing, gateway, store, pc, req, redis_client, cached, query_embedding, hits,
                    answer, tokens, elapsed, setexArg, failed, trace, result >>

\* The response (or the error) is out and the background tasks have run: the process
\* drops the request and is free for the next one.
Finish(r) ==
    /\ pc[r] = "done"
    /\ bg[r] = <<>>
    /\ pc' = [pc EXCEPT ![r] = "idle"]
    /\ req' = [req EXCEPT ![r] = NoReq]
    /\ redis_client' = [redis_client EXCEPT ![r] = FALSE]
    /\ cached' = [cached EXCEPT ![r] = Absent]
    /\ query_embedding' = [query_embedding EXCEPT ![r] = NoVec]
    /\ hits' = [hits EXCEPT ![r] = <<>>]
    /\ answer' = [answer EXCEPT ![r] = ""]
    /\ tokens' = [tokens EXCEPT ![r] = None]
    /\ elapsed' = [elapsed EXCEPT ![r] = 0]
    /\ setexArg' = [setexArg EXCEPT ![r] = NoSetex]
    /\ failed' = [failed EXCEPT ![r] = {}]
    /\ trace' = [trace EXCEPT ![r] = <<>>]
    /\ result' = [result EXCEPT ![r] = NoResult]
    /\ lastSave' = [lastSave EXCEPT ![r] = NoSave]
    /\ UNCHANGED << webVars, ck, ing, gateway, store, bg, table >>

-----------------------------------------------------------------------------
(* Spec: one server process serving requests for one question *)

Server == {1}
Asked == { rq \in AskRequests : rq.question = "What is X?" }
Watched == { cache_key(rq.collection_name, rq.question) : rq \in Asked }
Elapsed == {1, 2}
Usages == {None, Some(10)}

Next ==
    \/ \E k \in Watched : Expire(k)
    \/ \E k \in Watched, v \in ForeignValues : ForeignSet(k, v)
    \/ \E r \in Server, rq \in Asked, redis \in {"ok", "raise", "missing"} :
          AskBegin(r, rq, redis)
    \/ \E r \in Server, raises \in BOOLEAN : CacheGet(r, raises)
    \/ \E r \in Server, raises \in BOOLEAN : CacheDelete(r, raises)
    \/ \E r \in Server, raises \in BOOLEAN : BuildClient(r, raises)
    \/ \E r \in Server, remote \in {"ok", "raise", "off"} : Embed(r, remote)
    \/ \E r \in Server, raises \in BOOLEAN : Search(r, raises)
    \/ \E r \in Server, raises \in BOOLEAN, usage \in Usages, ms \in Elapsed :
          Complete(r, raises, usage, ms)
    \/ \E r \in Server, raises \in BOOLEAN : CacheWrite(r, raises)
    \/ \E r \in Server, fails \in {"no", "HistorySaver", "add_task"} : HistorySchedule(r, fails)
    \/ \E r \in Server, F \in SUBSET FailPoints : RunHistoryTask(r, F)
    \/ \E r \in Server : Finish(r)

Spec == Init /\ [][Next]_vars

\* A step of the handler process r is running, or of the background task it left.  The
\* handler holds no await and every external call returns or raises, so a request that
\* has begun is run to its end.
Step(r) ==
    \/ \E raises \in BOOLEAN : CacheGet(r, raises)
    \/ \E raises \in BOOLEAN : CacheDelete(r, raises)
    \/ \E raises \in BOOLEAN : BuildClient(r, raises)
    \/ \E remote \in {"ok", "raise", "off"} : Embed(r, remote)
    \/ \E raises \in BOOLEAN : Search(r, raises)
    \/ \E raises \in BOOLEAN, usage \in Usages, ms \in Elapsed : Complete(r, raises, usage, ms)
    \/ \E raises \in BOOLEAN : CacheWrite(r, raises)
    \/ \E fails \in {"no", "HistorySaver", "add_task"} : HistorySchedule(r, fails)

SpecLive == Spec /\ \A r \in Server : WF_vars(Step(r))

-----------------------------------------------------------------------------
(* SpecConcurrent: two server processes, the same question, an empty cache *)

\* The handler holds no await: requests interleave only between processes (workers,
\* replicas), which share the cache store and the history table.  Here every external
\* call succeeds.
SameAsk == [question |-> "What is X?", collection_name |-> "default", top_k |-> 2, use_cache |-> TRUE]

NextConcurrent ==
    \/ \E r \in Slots : AskBegin(r, SameAsk, "ok")
    \/ \E r \in Slots : CacheGet(r, FALSE)
    \/ \E r \in Slots : BuildClient(r, FALSE)
    \/ \E r \in Slots : Embed(r, "off")
    \/ \E r \in Slots : Search(r, FALSE)
    \/ \E r \in Slots, ms \in Elapsed : Complete(r, FALSE, Some(10), ms)
    \/ \E r \in Slots : CacheWrite(r, FALSE)
    \/ \E r \in Slots : HistorySchedule(r, "no")
    \/ \E r \in Slots : RunHistoryTask(r, {})
    \/ \E r \in Slots : Finish(r)

SpecConcurrent == Init /\ [][NextConcurrent]_vars

-----------------------------------------------------------------------------
(* SpecHeal: two server processes, the same question, a corrupted entry under its key *)

\* As SpecConcurrent, with the entry of the key once left truncated by another writer,
\* and the delete of the requests that read it so.
NextHeal ==
    \/ /\ \A r \in Slots : pc[r] = "idle" /\ setexArg[r] = NoSetex
       /\ table = <<>>
       /\ ForeignSet(cache_key(SameAsk.collection_name, SameAsk.question), Truncated)
    \/ \E r \in Slots : AskBegin(r, SameAsk, "ok")
    \/ \E r \in Slots : CacheGet(r, FALSE)
    \/ \E r \in Slots : CacheDelete(r, FALSE)
    \/ \E r \in Slots : BuildClient(r, FALSE)
    \/ \E r \in Slots : Embed(r, "off")
    \/ \E r \in Slots : Search(r, FALSE)
    \/ \E r \in Slots, ms \in Elapsed : Complete(r, FALSE, Some(10), ms)
    \/ \E r \in Slots : CacheWrite(r, FALSE)
    \/ \E r \in Slots : HistorySchedule(r, "no")
    \/ \E r \in Slots : RunHistoryTask(r, {})
    \/ \E r \in Slots : Finish(r)

SpecHeal == Init /\ [][NextHeal]_vars

-----------------------------------------------------------------------------
(* SpecHistory: HistorySaver called directly *)

CallArgs ==
    { HistoryArgs("Q1", "A1", None, s) : s \in {NoList, SomeList(<<>>), SomeList(<< "s1" >>)} }
    \cup { HistoryArgs("Q1", "A2", Some(5), s) : s \in {NoList, SomeList(<< "s1" >>)} }

\* saver.save(question, answer, tokens, sources)
CallSave(r, args, F) ==
    /\ pc[r] = "idle"
    /\ Len(table) < MaxRows
    /\ LET out == save(table, args, F)
       IN  /\ table' = out.table
           /\ lastSave' = [lastSave EXCEPT ![r] = SaveRecord("save", args, Len(table), out)]
    /\ UNCHANGED << webVars, ck, ing, gateway, store, pc, req, redis_client, cached, query_embedding, hits,
                    answer, tokens, elapsed, setexArg, failed, trace, result, bg >>

\* await saver.save_async(question, answer, tokens, sources)
CallSaveAsync(r, args, F) ==
    /\ pc[r] = "idle"
    /\ Len(table) < MaxRows
    /\ LET out == save_async(table, args, F)
       IN  /\ table' = out.table
           /\ lastSave' = [lastSave EXCEPT ![r] = SaveRecord("save_async", args, Len(table), out)]
    /\ UNCHANGED << webVars, ck, ing, gateway, store, pc, req, redis_client, cached, query_embedding, hits,
                    answer, tokens, elapsed, setexArg, failed, trace, result, bg >>

NextHistory ==
    \/ \E r \in Server, args \in CallArgs, F \in SUBSET FailPoints : CallSave(r, args, F)
    \/ \E r \in Server, args \in CallArgs, F \in SUBSET FailPoints : CallSaveAsync(r, args, F)

SpecHistory == Init /\ [][NextHistory]_vars

-----------------------------------------------------------------------------
(* SpecChunk: Ingestor._chunk_text called directly *)

\* The chunks list is recorded up to this length, and of the chunks appended beyond it
\* only the parity of their number (more); a call that returns never holds more than
\* Len(text) chunks.
MaxChunks == MaxLen + 1

\* Lines 45-49: self._chunk_text(text) on an Ingestor(chunk_size=..., overlap=...)
ChunkCall(text, chunk_size, overlap) ==
    /\ ck.pc = "idle"
    /\ ck' = [pc |-> IF text = <<>> THEN "returned" ELSE "loop",
              text |-> text, chunk_size |-> chunk_size, overlap |-> overlap,
              start |-> 0, chunks |-> <<>>, more |-> 0]
    /\ UNCHANGED << webVars, ing, gateway, store, askVars, table >>

\* Lines 50-59: one iteration of the while loop, and the return when it ends
ChunkStep ==
    /\ ck.pc = "loop"
    /\ LET end == ck.start + ck.chunk_size
           chunk == Slice(ck.text, ck.start, end)
           start == NextStart(end, ck.overlap)
       IN  ck' = [ck EXCEPT
                    !.chunks = IF Len(@) < MaxChunks THEN Append(@, chunk) ELSE @,
                    !.more = IF Len(ck.chunks) < MaxChunks THEN @ ELSE 1 - @,
                    !.start = start,
                    !.pc = IF start >= Len(ck.text) THEN "returned" ELSE "loop"]
    /\ UNCHANGED << webVars, ing, gateway, store, askVars, table >>

NextChunk ==
    \/ \E L \in 0..MaxLen, chunk_size \in 0..MaxWindow, overlap \in 0..MaxWindow :
          ChunkCall(Text(L), chunk_size, overlap)
    \/ ChunkStep

\* The loop runs on as long as it can: the call is not abandoned half way.
SpecChunk == Init /\ [][NextChunk]_vars /\ WF_vars(NextChunk)

-----------------------------------------------------------------------------
(* SpecIngest: runs of Ingestor.ingest_files *)

\* Ingestor(chunk_size=..., overlap=...): the defaults are 1000 and 200
IngestorParams == { [chunk_size |-> 1, overlap |-> 0], [chunk_size |-> 3, overlap |-> 1] }

Catalogue ==
    { SavedFile("nopath.txt", "", "ok", <<>>),
      SavedFile("gone.txt", "/media/gone.txt", "absent", <<>>),
      SavedFile("locked.txt", "/media/locked.txt", "unreadable", Text(3)),
      SavedFile("small.txt", "/media/small.txt", "ok", << 1, 0, 2 >>),
      SavedFile("exact.txt", "/media/exact.txt", "ok", Text(64)),
      SavedFile("big.txt", "/media/big.txt", "ok", Text(130)) }

RECURSIVE Lists(_)
Lists(n) ==
    IF n = 0 THEN { <<>> }
    ELSE Lists(n - 1) \cup { Append(l, f) : l \in { m \in Lists(n - 1) : Len(m) = n - 1 }, f \in Catalogue }

\* Lines 77-80: ingestor.ingest_files(saved_files).  An Ingestor exists only where
\* QdrantClient and rest are there (lines 35-36), so the test of line 77 fails.
IngestCall(params, remote, saved_files) ==
    /\ ing.pc = "idle"
    /\ ing' = [NoIngest EXCEPT !.pc = "file", !.chunk_size = params.chunk_size,
                               !.overlap = params.overlap, !.remote = remote,
                               !.saved_files = saved_files, !.fi = 1]
    /\ UNCHANGED << webVars, ck, gateway, store, askVars, table >>

\* Lines 81-94: the next entry of saved_files: skipped, or read and chunked
IngestFile ==
    /\ ing.pc = "file"
    /\ ing.fi <= Len(ing.saved_files)
    /\ LET f == ing.saved_files[ing.fi]
       IN  IF Skipped(f)
           THEN ing' = [ing EXCEPT !.fi = AfterSkip(ing.fi, Len(ing.saved_files))]
           ELSE ing' = [ing EXCEPT !.pc = "chunk",
                                   !.chunks = _chunk_text(read_text(f), ing.chunk_size, ing.overlap),
                                   !.ci = 0,
                                   !.points = <<>>]
    /\ UNCHANGED << webVars, ck, gateway, store, askVars, table >>

\* Lines 95-106: one iteration of the loop over the chunks
IngestChunk(embedRaises, upsertRaises) ==
    /\ ing.pc = "chunk"
    /\ ing.ci < Len(ing.chunks)
    /\ LET f == ing.saved_files[ing.fi]
           i == ing.ci
           chunk == ing.chunks[i + 1]
           called == Append(ing.embeds, [fi |-> ing.fi, i |-> i, text |-> chunk])
           points == Append(ing.points,
                            PointStruct(ing.fi, f.filename, i, chunk, _embed(chunk, ing.remote)))
       IN  IF embedRaises
           THEN ing' = [ing EXCEPT !.embeds = called, !.error = "embed", !.pc = "raised"]
           ELSE IF ~ShouldFlush(points)
           THEN ing' = [ing EXCEPT !.embeds = called, !.points = points, !.ci = i + 1]
           ELSE IF upsertRaises
           THEN ing' = [ing EXCEPT !.embeds = called, !.points = points,
                                   !.upserts = Append(@, points),
                                   !.error = "upsert", !.pc = "raised"]
           ELSE ing' = [ing EXCEPT !.embeds = called, !.points = <<>>, !.ci = i + 1,
                                   !.upserts = Append(@, points),
                                   !.total = Counted(@, points)]
    /\ UNCHANGED << webVars, ck, gateway, store, askVars, table >>

\* Lines 108-110: the file's chunks are through: the last, partial batch
IngestFlush(upsertRaises) ==
    /\ ing.pc = "chunk"
    /\ ing.ci >= Len(ing.chunks)
    /\ IF ing.points = <<>>
       THEN ing' = [ing EXCEPT !.pc = "file", !.fi = @ + 1]
       ELSE IF upsertRaises
       THEN ing' = [ing EXCEPT !.upserts = Append(@, ing.points),
                               !.error = "upsert", !.pc = "raised"]
       ELSE ing' = [ing EXCEPT !.upserts = Append(@, ing.points),
                               !.total = Counted(@, ing.points),
                               !.points = <<>>, !.pc = "file", !.fi = @ + 1]
    /\ UNCHANGED << webVars, ck, gateway, store, askVars, table >>

\* Line 112: return {"status": "ok", "inserted": total}
IngestReturn ==
    /\ ing.pc = "file"
    /\ ing.fi > Len(ing.saved_files)
    /\ ing' = [ing EXCEPT !.pc = "returned",
                          !.result = [status |-> "ok", inserted |-> ing.total]]
    /\ UNCHANGED << webVars, ck, gateway, store, askVars, table >>

NextIngest ==
    \/ \E params \in IngestorParams, remote \in BOOLEAN, saved_files \in Lists(MaxFiles) :
          IngestCall(params, remote, saved_files)
    \/ IngestFile
    \/ \E embedRaises \in BOOLEAN, upsertRaises \in BOOLEAN : IngestChunk(embedRaises, upsertRaises)
    \/ \E upsertRaises \in BOOLEAN : IngestFlush(upsertRaises)
    \/ IngestReturn

SpecIngest == Init /\ [][NextIngest]_vars

-----------------------------------------------------------------------------
(* POST /api/documents: src/router/base_route.py, documents *)

\* The multipart forms: their values are uploads (with or without a filename) and
\* plain fields
Forms ==
    UNION { [1..n -> { [upload |-> TRUE, filename |-> "a.txt", content |-> << 1, 2 >>],
                       [upload |-> TRUE, filename |-> "", content |-> << 3 >>],
                       [upload |-> FALSE, filename |-> "", content |-> <<>>] }]
            : n \in 0..MaxFiles }

\* FileSaver.save_single: the file is written under media_root, and described.
\* uuid4().hex is a name no other file has: here the position of the upload.
save_single(upload, n) ==
    LET filename == IF upload.filename # "" THEN upload.filename ELSE "file-" \o NumText(n)
    IN  SavedFile(filename, "/media/" \o filename, "ok", upload.content)

\* FileSaver.save_all: the form's values that have a filename attribute, in the form's order
save_all(form) ==
    LET files == SelectSeq(form, LAMBDA v : v.upload)
    IN  [i \in 1..Len(files) |-> save_single(files[i], i)]

\* Lines 44-45, 59-62: FileSaver(...), await saver.save_all().
\* fails: "no" | "FileSaver" | "save_all"
DocSave(form, fails) ==
    /\ doc.pc = "idle"
    /\ IF fails = "no"
       THEN doc' = [doc EXCEPT !.pc = "schedule", !.form = form, !.saved = save_all(form)]
       ELSE doc' = [doc EXCEPT !.pc = "responded", !.form = form, !.failed = {fails},
                               !.result = HTTPException("Failed to save files")]
    /\ UNCHANGED << sng, qdrant, vq, kp, ck, ing, gateway, store, askVars, table >>

\* A faulty handler that enqueues the task whatever happened; C22 rules it out.
Scheduled_Always(tasks, saved, fails) == Append(tasks, saved)

\* Lines 50-51: the tasks after Ingestor(...) and add_task(ingestor.ingest_files, saved)
Scheduled(tasks, saved, fails) == IF fails = "no" THEN Append(tasks, saved) ELSE tasks

\* Lines 49-56: the inner try.  fails: "no" | "Ingestor" | "add_task"
DocSchedule(fails) ==
    /\ doc.pc = "schedule"
    /\ doc' = [doc EXCEPT !.pc = "return",
                          !.tasks = Scheduled(@, doc.saved, fails),
                          !.failed = IF fails = "no" THEN @ ELSE @ \cup {fails}]
    /\ UNCHANGED << sng, qdrant, vq, kp, ck, ing, gateway, store, askVars, table >>

\* Line 58: return {"status": "ok", "saved": saved}
DocReturn ==
    /\ doc.pc = "return"
    /\ doc' = [doc EXCEPT !.pc = "responded",
                          !.result = Ok([status |-> "ok", saved |-> doc.saved])]
    /\ UNCHANGED << sng, qdrant, vq, kp, ck, ing, gateway, store, askVars, table >>

\* The background task starts: ingestor.ingest_files(saved), on Ingestor(collection_name=
\* "default") with its default chunk_size and overlap.
DocRunTask(remote) ==
    /\ BackgroundReady(doc.pc)
    /\ doc.tasks # <<>>
    /\ IngestCall([chunk_size |-> 1000, overlap |-> 200], remote, Head(doc.tasks))

\* The response is out and the task, if any, has returned or raised: the request is over.
DocFinish ==
    /\ doc.pc = "responded"
    /\ doc.tasks = <<>> \/ ing.pc \in {"returned", "raised"}
    /\ doc' = NoDocuments
    /\ ing' = NoIngest
    /\ UNCHANGED << sng, qdrant, vq, kp, ck, gateway, store, askVars, table >>

\* Somebody creates the collection in the vector store.
CreateCollection(c) ==
    /\ c \notin qdrant
    /\ qdrant' = qdrant \cup {c}
    /\ UNCHANGED << sng, doc, vq, kp, ck, ing, gateway, store, askVars, table >>

-----------------------------------------------------------------------------
(* SpecDeferred: one server process, its uploads, its questions and their background tasks *)

\* The store refuses an upsert into a collection it does not have: there the call raises.
NextDeferred ==
    \/ CreateCollection("default")
    \/ pc[1] = "idle" /\ \E form \in Forms, fails \in {"no", "FileSaver", "save_all"} :
                             DocSave(form, fails)
    \/ \E fails \in {"no", "Ingestor", "add_task"} : DocSchedule(fails)
    \/ DocReturn
    \/ \E remote \in BOOLEAN : DocRunTask(remote)
    \/ IngestFile
    \/ \E embedRaises \in BOOLEAN, upsertRaises \in { b \in BOOLEAN : b \/ "default" \notin qdrant } :
          IngestChunk(embedRaises, upsertRaises)
    \/ \E upsertRaises \in { b \in BOOLEAN : b \/ "default" \notin qdrant } : IngestFlush(upsertRaises)
    \/ IngestReturn
    \/ DocFinish
    \/ doc.pc = "idle" /\ \E k \in {0, 1, 3} :
                              AskBegin(1, [SameAsk EXCEPT !.top_k = k, !.use_cache = FALSE], "ok")
    \/ BuildClient(1, FALSE)
    \/ \E remote \in {"ok", "raise", "off"} : Embed(1, remote)
    \/ Search(1, FALSE)
    \/ \E usage \in Usages : Complete(1, FALSE, usage, 1)
    \/ CacheWrite(1, FALSE)
    \/ \E fails \in {"no", "HistorySaver", "add_task"} : HistorySchedule(1, fails)
    \/ \E F \in SUBSET FailPoints : RunHistoryTask(1, F)
    \/ Finish(1)

SpecDeferred == Init /\ [][NextDeferred]_vars

-----------------------------------------------------------------------------
(* SpecQuery: POST /vectors/query, app/api/routes.py, query_vectors *)

\* Lines 186-219, the whole handler.
\* client: what get_chromadb() hands out: "ChromaDBClient", the class of
\*   app/db/chroma_client.py, whose get_or_create_collection(self, name) takes no
\*   embedding_function, so that the call of lines 192-195 raises TypeError; or
\*   "chromadb", a client with chromadb's own signature.
\* fails: the call that raises for a reason of the backend, "no" when none does
QueryVectors(rq, client, fails) ==
    LET order == << "get_chromadb", "DefaultEmbeddingFunction", "get_or_create_collection" >>
        stop == IF \E i \in 1..3 : order[i] = fails
                THEN CHOOSE i \in 1..3 : order[i] = fails
                ELSE IF client = "ChromaDBClient" THEN 3 ELSE 0
        embeddings ==
            IF ~rq.query_embeddings.none /\ rq.query_embeddings.v # <<>>       \* line 197
            THEN rq.query_embeddings.v
            ELSE [i \in 1..Len(rq.query_texts.v) |-> FallbackVec(rq.query_texts.v[i])]
        queries == embeddings # <<>>                                            \* lines 197, 202
    IN  /\ vq' = [pc |-> "done",
                  before |-> vq.collections,
                  collections |-> IF stop = 0 THEN vq.collections \cup {rq.collection_name}
                                  ELSE vq.collections,
                  request |-> rq,
                  calls |-> IF stop # 0 THEN SubSeq(order, 1, stop)
                            ELSE IF queries THEN Append(order, "query") ELSE order,
                  result |->
                      IF stop # 0 \/ (queries /\ fails = "query")
                      THEN HTTPException("ChromaDB error")                      \* lines 218-219
                      ELSE IF queries
                      THEN Ok([status |-> "ok",
                               results |-> [query_embeddings |-> embeddings,
                                            n_results |-> rq.n_results]])       \* line 215
                      ELSE [HTTPException("Must provide either query_texts or query_embeddings")
                                EXCEPT !.status = 400]]                         \* lines 210-213
        /\ UNCHANGED << sng, doc, qdrant, kp, ck, ing, gateway, store, askVars, table >>

NextQuery ==
    \E c \in {"docs", "notes"},
       texts \in {NoList, SomeList(<<>>), SomeList(<< "hello" >>)},
       embeds \in {NoList, SomeList(<<>>), SomeList(<< RemoteVec >>)},
       client \in {"ChromaDBClient", "chromadb"},
       fails \in {"no", "get_chromadb", "DefaultEmbeddingFunction", "get_or_create_collection",
                  "query"} :
        QueryVectors([collection_name |-> c, query_texts |-> texts, query_embeddings |-> embeds,
                      n_results |-> 5], client, fails)

SpecQuery == Init /\ [][NextQuery]_vars

-----------------------------------------------------------------------------
(* SpecSingleton: app/db/redis_client.py and app/db/chroma_client.py, __new__ *)

\* The routes of app/api/routes.py are plain functions: the server runs them on the
\* threads of its pool, and each calls get_redis() or get_chromadb().  The objects made
\* are numbered 1, 2, ...; _instance is 0 for None; lock is the thread that holds
\* RedisClient._lock, 0 when free.  A thread switch may come between any two lines.

\* A faulty RedisClient that creates without taking the lock; C31 rules it out.
AfterCheck_NoLock(c, instance) == IF instance # 0 THEN "return" ELSE "assign"

\* redis_client.py line 11 and chroma_client.py line 9: where the first test leads
AfterCheck(c, instance) ==
    IF instance # 0 THEN "return"
    ELSE IF c = "RedisClient" THEN "lock"      \* with cls._lock, and the second test
    ELSE "assign"                              \* ChromaDBClient has no lock

\* get_redis() / get_chromadb(): cls(), and the test `if cls._instance is None`
NewCheck(t, c) ==
    /\ sng.th[t].pc = "idle"
    /\ sng.cls \in {"", c}
    /\ sng' = [sng EXCEPT !.cls = c, !.th[t].pc = AfterCheck(c, sng.instance)]
    /\ UNCHANGED << doc, qdrant, vq, kp, ck, ing, gateway, store, askVars, table >>

\* redis_client.py lines 12-14: the lock is taken, and _instance tested again; a thread
\* that finds an instance leaves the with block
NewLock(t) ==
    /\ sng.th[t].pc = "lock"
    /\ sng.lock = 0
    /\ IF sng.instance = 0
       THEN sng' = [sng EXCEPT !.lock = t, !.th[t].pc = "assign"]
       ELSE sng' = [sng EXCEPT !.th[t].pc = "return"]
    /\ UNCHANGED << doc, qdrant, vq, kp, ck, ing, gateway, store, askVars, table >>

\* redis_client.py line 15, chroma_client.py line 10: cls._instance = super().__new__(cls)
NewAssign(t) ==
    /\ sng.th[t].pc = "assign"
    /\ sng' = [sng EXCEPT !.made = @ + 1, !.instance = sng.made + 1, !.th[t].pc = "client"]
    /\ UNCHANGED << doc, qdrant, vq, kp, ck, ing, gateway, store, askVars, table >>

\* redis_client.py lines 16-19, chroma_client.py lines 11-14: the connection is made, then
\* cls._instance is read and its client attribute set; the with block ends.  When the
\* constructor of the connection raises, the exception leaves __new__ (and the with block).
NewClient(t, raises) ==
    /\ sng.th[t].pc = "client"
    /\ IF raises
       THEN sng' = [sng EXCEPT !.lock = IF @ = t THEN 0 ELSE @, !.th[t].pc = "raised"]
       ELSE sng' = [sng EXCEPT !.lock = IF @ = t THEN 0 ELSE @,
                               !.conns = @ + 1,
                               !.clients = @ \cup {sng.instance},
                               !.th[t].pc = "return"]
    /\ UNCHANGED << doc, qdrant, vq, kp, ck, ing, gateway, store, askVars, table >>

\* redis_client.py line 20, chroma_client.py line 15: return cls._instance
NewReturn(t) ==
    /\ sng.th[t].pc = "return"
    /\ sng' = [sng EXCEPT !.th[t].pc = "returned", !.th[t].got = sng.instance,
                          !.th[t].ready = sng.instance \in sng.clients]
    /\ UNCHANGED << doc, qdrant, vq, kp, ck, ing, gateway, store, askVars, table >>

\* redis_client.py lines 22-36, chroma_client.py lines 17-23: the caller's first call on
\* the object, self.client.<method>(...): AttributeError when the object has no client
UseClient(t) ==
    /\ sng.th[t].pc = "returned"
    /\ sng' = [sng EXCEPT !.th[t].pc = "used", !.th[t].ok = sng.th[t].got \in sng.clients]
    /\ UNCHANGED << doc, qdrant, vq, kp, ck, ing, gateway, store, askVars, table >>

NextSingleton ==
    \E t \in 1..MaxThreads :
        \/ \E c \in {"RedisClient", "ChromaDBClient"} : NewCheck(t, c)
        \/ NewLock(t)
        \/ NewAssign(t)
        \/ \E raises \in BOOLEAN : NewClient(t, raises)
        \/ NewReturn(t)
        \/ UseClient(t)

SpecSingleton == Init /\ [][NextSingleton]_vars

-----------------------------------------------------------------------------
(* SpecKey: the cache keys of two ask requests *)

\* Collection names are free text: one of them ends like a key
KeyRequests ==
    [question : Questions, collection_name : {"default", "docs", "docs:b1a0c3c4"},
     top_k : {0, 2}, use_cache : BOOLEAN]

\* Lines 84-98 for two requests: qid and cache_key
KeyPair(rq1, rq2) ==
    /\ kp' = [first |-> rq1, second |-> rq2,
              key1 |-> cache_key(rq1.collection_name, rq1.question),
              key2 |-> cache_key(rq2.collection_name, rq2.question)]
    /\ UNCHANGED << sng, doc, qdrant, vq, ck, ing, gateway, store, askVars, table >>

NextKey == \E rq1 \in KeyRequests, rq2 \in KeyRequests : KeyPair(rq1, rq2)

SpecKey == Init /\ [][NextKey]_vars

-----------------------------------------------------------------------------
(* Properties of ingest_files *)

\* The chunks of the j-th entry of the run's saved_files: none for an entry skipped
ChunksOf(j) ==
    LET f == ing.saved_files[j]
    IN  IF Skipped(f) THEN <<>>
        ELSE _chunk_text(read_text(f), ing.chunk_size, ing.overlap)

\* The upsert calls that carry points of the j-th entry, in order
BatchesOf(j) == SelectSeq(ing.upserts, LAMBDA b : \E k \in 1..Len(b) : b[k].id[1] = j)

\* All points passed to upsert, in order
RECURSIVE Flatten(_, _)
Flatten(batches, k) == IF k > Len(batches) THEN <<>> ELSE batches[k] \o Flatten(batches, k + 1)

\* What is embedded, and what is upserted, from entry j on: (entry, chunk index, chunk)
RECURSIVE ExpectedFrom(_)
ExpectedFrom(j) ==
    IF j > Len(ing.saved_files) THEN <<>>
    ELSE [i \in 1..Len(ChunksOf(j)) |-> [fi |-> j, i |-> i - 1, text |-> ChunksOf(j)[i]]]
         \o ExpectedFrom(j + 1)

CeilDiv(n, d) == (n + d - 1) \div d

\* C11: no upsert call carries zero points, more than 64 points, or points of two
\* files; when ingest_files returns, a file of n chunks has had ceil(n/64) upsert calls,
\* all of 64 points but the last, which has n - 64*(ceil(n/64)-1).
C11_IngestBatching ==
    /\ \A b \in 1..Len(ing.upserts) :
           /\ Len(ing.upserts[b]) >= 1 /\ Len(ing.upserts[b]) <= 64
           /\ \A k \in 1..Len(ing.upserts[b]) : ing.upserts[b][k].id[1] = ing.upserts[b][1].id[1]
    /\ ing.pc = "returned" =>
           \A j \in 1..Len(ing.saved_files) :
               LET n == Len(ChunksOf(j))
                   bs == BatchesOf(j)
               IN  /\ Len(bs) = CeilDiv(n, 64)
                   /\ \A k \in 1..(Len(bs) - 1) : Len(bs[k]) = 64
                   /\ Len(bs) > 0 => Len(bs[Len(bs)]) = n - 64 * (CeilDiv(n, 64) - 1)

C11_Witness ==
    /\ ing.pc = "returned" /\ ing.chunk_size = 1 /\ Len(ing.saved_files) = 2
    /\ ing.saved_files[1].filename = "big.txt" /\ ing.saved_files[2].filename = "exact.txt"
    /\ [b \in 1..Len(ing.upserts) |-> Len(ing.upserts[b])] = << 64, 64, 2, 64 >>

\* C12: when ingest_files returns, its inserted count is the number of points passed to
\* upsert, which is the number of chunks of the files not skipped; the chunks were
\* embedded once each, in order, and the points passed to upsert are, in order, one per
\* chunk, with the file's name, the chunk's index in its file (from 0) and the chunk.
C12_InsertedConservation ==
    ing.pc = "returned" =>
        LET points == Flatten(ing.upserts, 1)
        IN  /\ ing.result.status = "ok"
            /\ ing.result.inserted = Len(points)
            /\ ing.result.inserted = Len(ExpectedFrom(1))
            /\ ing.embeds = ExpectedFrom(1)
            /\ [k \in 1..Len(points) |->
                    [fi |-> points[k].id[1], i |-> points[k].payload.chunk_index,
                     text |-> points[k].payload.text]] = ExpectedFrom(1)
            /\ \A k \in 1..Len(points) :
                   points[k].payload.filename = ing.saved_files[points[k].id[1]].filename

C12_Witness ==
    /\ ing.pc = "returned" /\ ing.chunk_size = 3 /\ Len(ing.saved_files) = 2
    /\ ing.saved_files[1].filename = "big.txt" /\ ing.saved_files[2].filename = "small.txt"
    /\ ing.result.inserted = 66
    /\ Len(ing.upserts) = 3
    /\ ing.upserts[3][1].payload = [filename |-> "small.txt", chunk_index |-> 0, text |-> << 1, 2 >>]

\* The file contributes nothing: no path, no such file, or a read that raises
Contributes(f) == f.path # "" /\ f.fs = "ok"

\* C13: ingest_files raises only where the embedding call or upsert raised; when it
\* returns, an entry with no path, with a path that does not exist, or whose read
\* raised has no point, every other entry has one point per chunk of its text, and the
\* points come in the order of the list.
C13_MissingFilesSkipped ==
    /\ ing.pc = "raised" => ing.error \in {"embed", "upsert"}
    /\ ing.pc = "returned" =>
           LET points == Flatten(ing.upserts, 1)
               of(j) == { k \in 1..Len(points) : points[k].id[1] = j }
           IN  /\ \A j \in 1..Len(ing.saved_files) :
                      LET f == ing.saved_files[j]
                      IN  IF Contributes(f)
                          THEN /\ Cardinality(of(j)) =
                                      Len(_chunk_text(decode(f.raw), ing.chunk_size, ing.overlap))
                               /\ Cardinality({ k \in 1..Len(ing.embeds) : ing.embeds[k].fi = j })
                                      = Cardinality(of(j))
                          ELSE of(j) = {}
               /\ \A k \in 1..(Len(points) - 1) : points[k].id[1] <= points[k + 1].id[1]

C13_Witness ==
    /\ ing.pc = "returned" /\ Len(ing.saved_files) = 2
    /\ ing.saved_files[1].fs = "absent" /\ ing.saved_files[2].filename = "small.txt"
    /\ ing.result.inserted >= 1

\* C14: a run in which the embedding call or an upsert raised does not end with the
\* exception leaving ingest_files.
C14_IngestFailureSwallowed == ing.error # "" => ing.pc # "raised"

-----------------------------------------------------------------------------
(* Properties of _chunk_text *)

\* The call returned, and its arguments satisfy 0 <= overlap < chunk_size.
ChunkedInRange == ck.pc = "returned" /\ ck.overlap < ck.chunk_size

\* The characters two chunks share (the characters of a text are all different).
Shared(c, d) == Cardinality({ c[i] : i \in 1..Len(c) } \cap { d[i] : i \in 1..Len(d) })

\* chunk[O:]
Stripped(chunk, O) == SubSeq(chunk, O + 1, Len(chunk))

RECURSIVE Reconstituted(_, _, _)
Reconstituted(chunks, O, k) ==
    IF k > Len(chunks) THEN <<>>
    ELSE (IF k = 1 THEN chunks[1] ELSE Stripped(chunks[k], O)) \o Reconstituted(chunks, O, k + 1)

\* C15, as claimed: for a text of length L >= 1 and 0 <= O < W, every consecutive pair
\* of chunks overlaps by exactly O characters, except possibly the pair that ends in the
\* final chunk.
C15_PairsOverlapExactly ==
    (ChunkedInRange /\ Len(ck.text) >= 1) =>
        \A k \in 1..(Len(ck.chunks) - 2) : Shared(ck.chunks[k], ck.chunks[k + 1]) = ck.overlap

\* C15, amended: for a text of length L >= 1 and 0 <= O < W, the chunks cover every
\* character of the text; a consecutive pair of chunks overlaps by exactly O characters
\* when the earlier chunk is a full window of W characters, and otherwise the later
\* chunk lies wholly inside the earlier one and has fewer than O characters; the first
\* chunk followed by every later chunk without its first O characters is the text.
C15_ChunkCoverage ==
    (ChunkedInRange /\ Len(ck.text) >= 1) =>
        LET cs == ck.chunks
            O == ck.overlap
            W == ck.chunk_size
        IN  /\ \A i \in 1..Len(ck.text) :
                   \E k \in 1..Len(cs) : \E j \in 1..Len(cs[k]) : cs[k][j] = ck.text[i]
            /\ \A k \in 1..(Len(cs) - 1) :
                   /\ Len(cs[k]) = W =>
                          /\ Shared(cs[k], cs[k + 1]) = O
                          /\ SubSeq(cs[k], W - O + 1, W) = SubSeq(cs[k + 1], 1, O)
                   /\ Len(cs[k]) < W =>
                          /\ Shared(cs[k], cs[k + 1]) = Len(cs[k + 1])
                          /\ Len(cs[k + 1]) < O
            /\ Reconstituted(cs, O, 1) = ck.text

C15_Witness ==
    /\ ChunkedInRange /\ Len(ck.text) = 5 /\ ck.chunk_size = 3 /\ ck.overlap = 1
    /\ ck.chunks = << << 1, 2, 3 >>, << 3, 4, 5 >>, << 5 >> >>

\* C16: for 0 <= O < W the call returns ceil(L / (W - O)) chunks, the k-th of them
\* (k = 0, 1, ...) being text[k*(W-O) : k*(W-O) + W]; an empty text returns no chunk,
\* whatever W and O.
C16_ChunkWindows ==
    /\ ChunkedInRange =>
           LET step == ck.chunk_size - ck.overlap
               n == (Len(ck.text) + step - 1) \div step
           IN  /\ Len(ck.chunks) = n
               /\ \A k \in 0..(n - 1) :
                      /\ k * step < Len(ck.text)
                      /\ ck.chunks[k + 1] =
                             SubSeq(ck.text, k * step + 1,
                                    IF k * step + ck.chunk_size < Len(ck.text)
                                    THEN k * step + ck.chunk_size ELSE Len(ck.text))
               /\ n * step >= Len(ck.text)
               /\ ck.chunks = _chunk_text(ck.text, ck.chunk_size, ck.overlap)
    /\ (ck.pc = "returned" /\ ck.text = <<>>) => ck.chunks = <<>>

C16_Witness ==
    /\ ChunkedInRange /\ Len(ck.text) = 4 /\ ck.chunk_size = 4 /\ ck.overlap = 3
    /\ Len(ck.chunks) = 4 /\ ck.chunks[3] = << 3, 4 >>

\* C17: every call of _chunk_text returns, whatever the text, chunk_size and overlap.
C17_ChunkerTerminates == (ck.pc = "loop") ~> (ck.pc = "returned")

-----------------------------------------------------------------------------
(* Properties *)

Called(r, op) == \E i \in 1..Len(trace[r]) : trace[r][i] = op
Count(r, op) == Cardinality({ i \in 1..Len(trace[r]) : trace[r][i] = op })

CacheOps == {"get_redis", "get", "delete", "setex"}
StageOps == {"QdrantClient", "search", "ChatCompletion.create"}
HistoryOps == {"HistorySaver", "add_task"}

\* get returned a non-empty value that json.loads accepts
ReadParseable(r) == Truthy(cached[r]) /\ json_loads(cached[r].val).ok
\* get returned a value (None is no value) that json.loads rejects
ReadUnparseable(r) == cached[r].present /\ ~json_loads(cached[r].val).ok
\* the lookup is over
PastLookup(r) == pc[r] \notin {"idle", "cache_check", "cache_delete"}

\* What the request returns when nothing is cached: the answer and the sources
\* follow from the question, the collection and top_k.
FreshHits(rq) == search(rq.collection_name, NoVec, rq.top_k)
FreshAnswer(rq) == Completion(build_prompt(rq.question, contexts(FreshHits(rq))))
FreshSources(rq) == sources(FreshHits(rq))

\* C1: a request with use_cache=true whose redis_client.get returned a value that parses
\* ends at once with the parsed value as its body, and has called neither QdrantClient,
\* nor search, nor the embedding backend, nor the completion backend.
C1_CacheHitShortCircuit ==
    \A r \in Slots :
        (req[r].use_cache /\ redis_client[r] /\ ReadParseable(r)) =>
            /\ pc[r] = "done"
            /\ result[r] = Ok(json_loads(cached[r].val).obj)
            /\ ~Called(r, "QdrantClient") /\ ~Called(r, "search")
            /\ ~Called(r, "Embedding.create") /\ ~Called(r, "ChatCompletion.create")
            /\ query_embedding[r] = NoVec

C1_Witness ==
    \E r \in Slots :
        /\ pc[r] = "done" /\ req[r].use_cache /\ ReadParseable(r)
        /\ result[r].body = PreBundle

\* C2: the step that passes the cache write of a request with use_cache=true and a
\* client from get_redis leaves an entry under the request's key, holding the bundle,
\* with a time-to-live of CACHE_TTL_SECONDS (unless the store itself refused the call).
C2_CacheWritten ==
    [][ \A r \in Slots :
          ( /\ pc[r] = "cache_write" /\ pc'[r] = "history"
            /\ req[r].use_cache /\ redis_client[r]
            /\ ~(setexArg'[r].called /\ "setex" \in failed'[r]) )
          => store'[Key(r)] = Entry(CacheValue(r), CACHE_TTL_SECONDS) ]_vars

\* C3: the bundle a request passes to setex parses back to the body that request
\* returns; and a request that reads an entry an earlier request wrote (the entry
\* neither expired nor replaced since) returns that request's response and does not
\* call the completion backend.
C3_CacheRoundTrip ==
    \A r \in Slots :
        /\ (pc[r] = "done" /\ setexArg[r].called /\ result[r].kind = "ok") =>
               /\ json_loads(setexArg[r].value).ok
               /\ json_loads(setexArg[r].value).obj = result[r].body
               /\ setexArg[r].key = Key(r)
        /\ (pc[r] = "done" /\ Truthy(cached[r]) /\ cached[r].origin # NoResult) =>
               /\ result[r] = cached[r].origin
               /\ ~Called(r, "ChatCompletion.create")

C3_Witness ==
    \E r \in Slots :
        /\ pc[r] = "done" /\ cached[r].origin # NoResult
        /\ result[r] = cached[r].origin
        /\ result[r].body.tokens = None
        /\ Len(result[r].body.sources) = 2

\* C4, as claimed: whenever the value fetched fails to deserialize, the request calls
\* delete before it goes on.
C4_DeleteOnAnyUnparseable ==
    \A r \in Slots :
        (req[r].use_cache /\ ReadUnparseable(r) /\ PastLookup(r)) => Called(r, "delete")

\* C4, amended: whenever the value fetched is not empty and fails to deserialize, the
\* request calls delete once, right after get, and then runs the miss path as if
\* nothing had been cached: with its stages succeeding it reaches the cache write and
\* returns the fresh response, also when delete raised.  An empty value is a plain
\* miss: no delete.
C4_DeleteOnCorrupt ==
    \A r \in Slots :
        /\ (req[r].use_cache /\ ReadUnparseable(r) /\ Truthy(cached[r]) /\ PastLookup(r)) =>
               /\ Count(r, "delete") = 1
               /\ \E i \in 1..(Len(trace[r]) - 1) : trace[r][i] = "get" /\ trace[r][i + 1] = "delete"
               /\ pc[r] # "clients" => Called(r, "QdrantClient")
               /\ (pc[r] = "done" /\ failed[r] \cap StageOps = {}) =>
                      /\ result[r] = Ok(Body(r))
                      /\ result[r].body.answer = FreshAnswer(req[r])
                      /\ query_embedding[r] # NoVec
                      /\ Called(r, "search") /\ Called(r, "ChatCompletion.create")
                      /\ HasSetex(gateway) => setexArg[r].called
        /\ (req[r].use_cache /\ cached[r].present /\ ~Truthy(cached[r])) => ~Called(r, "delete")

C4_Witness ==
    \E r \in Slots :
        /\ pc[r] = "done" /\ cached[r].val = Truncated /\ "delete" \in failed[r]
        /\ result[r].kind = "ok" /\ setexArg[r].called

\* C5: a request in which obtaining the vector-store client, the search or the
\* completion raised ends with an HTTPException of status 500 whose detail names the
\* stage, and with no body.
C5_StageFailureNamed ==
    \A r \in Slots :
        (pc[r] = "done" /\ failed[r] \cap StageOps # {}) =>
            /\ result[r].kind = "HTTPException"
            /\ result[r].status = 500
            /\ result[r].detail \in {"Qdrant client error", "Qdrant search error", "OpenAI error"}
            /\ result[r].body = NoBody

\* C6: a request in which cache operations raised (any of get_redis, get, delete,
\* setex) while the client, the search and the completion did not, ends with a
\* response, whose answer, sources and tokens are those of the request served
\* without a cache.
C6_CacheFailuresNonFatal ==
    \A r \in Slots :
        (pc[r] = "done" /\ failed[r] \cap CacheOps # {} /\ failed[r] \cap StageOps = {}) =>
            /\ result[r].kind = "ok" /\ result[r].status = 200
            /\ result[r].body.answer = FreshAnswer(req[r])
            /\ result[r].body.sources = FreshSources(req[r])
            /\ result[r].body.tokens = tokens[r]

C6_Witness ==
    \E r \in Slots :
        /\ pc[r] = "done" /\ {"delete", "setex"} \subseteq failed[r]
        /\ result[r].kind = "ok" /\ Len(result[r].body.sources) = 2

\* C7: a request that reached the history step returns the response it computed,
\* whether HistorySaver() raised, add_task raised, or the write later failed.
C7_HistoryFailureIsolated ==
    \A r \in Slots :
        (pc[r] = "done" /\ Called(r, "HistorySaver")) =>
            /\ result[r] = Ok(Body(r))
            /\ result[r].body.answer = FreshAnswer(req[r])
            /\ ~lastSave[r].raised

C7_Witness ==
    \E r \in Slots :
        /\ pc[r] = "done" /\ "HistorySaver" \in failed[r]
        /\ result[r].kind = "ok"

\* C8: no call of save or save_async raises, whichever database operation fails, and
\* each call commits at most once.
C8_SinkNeverRaises ==
    \A r \in Slots :
        lastSave[r].fn # "none" => (~lastSave[r].raised /\ lastSave[r].commits <= 1)

\* C9: a call of the saver either leaves the table as it is or appends one row to it;
\* it appends the row of its arguments (absent sources as an empty list) when open,
\* add, commit and close succeed, and appends nothing when the commit fails.
C9_HistoryAppendOnly ==
    [][ \A r \in Slots :
          (lastSave'[r] # lastSave[r] /\ lastSave'[r].fn # "none") =>
              LET c == lastSave'[r]
                  row == [question |-> c.args.question, answer |-> c.args.answer,
                          tokens |-> c.args.tokens,
                          sources |-> IF c.args.sources.none THEN <<>> ELSE c.args.sources.v]
              IN  /\ table' = table \/ table' = Append(table, row)
                  /\ (c.opened = 1 /\ c.commits = 1 /\ c.rollbacks = 0 /\ c.closed = 1)
                         => table' = Append(table, row)
                  /\ (c.commits = 1 /\ c.rollbacks = 1) => table' = table ]_vars

C9_Witness ==
    \E r \in Slots :
        /\ lastSave[r].fn = "save" /\ lastSave[r].args.sources.none
        /\ lastSave[r].commits = 1 /\ lastSave[r].rollbacks = 0
        /\ Len(table) = 2
        /\ table[2].sources = <<>> /\ table[2].answer = lastSave[r].args.answer
        /\ table[1].answer # table[2].answer

\* C10: a request that returned from the miss path, with HistorySaver() and add_task
\* not raising, has scheduled one history write, of its question and of the answer,
\* tokens and sources of its response; no request schedules more than one.
C10_OneHistoryWrite ==
    \A r \in Slots :
        LET scheduled == bg[r] \o (IF lastSave[r].fn = "save_async"
                                   THEN << lastSave[r].args >> ELSE <<>>)
        IN  /\ Len(scheduled) <= 1
            /\ (pc[r] = "done" /\ Called(r, "ChatCompletion.create") /\ result[r].kind = "ok"
                /\ failed[r] \cap HistoryOps = {}) =>
                   scheduled = << HistoryArgs(req[r].question, result[r].body.answer,
                                              result[r].body.tokens,
                                              SomeList(result[r].body.sources)) >>

C10_Witness ==
    \E r \in Slots :
        /\ pc[r] = "done" /\ Len(bg[r]) = 1
        /\ bg[r][1].tokens = Some(10) /\ Len(bg[r][1].sources.v) = 2

-----------------------------------------------------------------------------
(* Order and termination of a request *)

\* The place of an external operation in the pipeline
Rank(op) ==
    CASE op = "get_redis" -> 0
      [] op = "get" -> 1
      [] op = "delete" -> 2
      [] op = "QdrantClient" -> 3
      [] op = "Embedding.create" -> 4
      [] op = "search" -> 5
      [] op = "ChatCompletion.create" -> 6
      [] op = "setex" -> 7
      [] op = "HistorySaver" -> 8
      [] op = "add_task" -> 9

\* C18: the external operations of a request come in the order get, delete, embedding,
\* search, completion, setex, history enqueue, none of them twice; delete comes only
\* after a get that returned a corrupted value; after an operation whose failure ends
\* the request, no other starts.
C18_PipelineOrder ==
    \A r \in Slots :
        /\ \A i \in 1..(Len(trace[r]) - 1) : Rank(trace[r][i]) < Rank(trace[r][i + 1])
        /\ \A op \in {"get", "delete", "Embedding.create", "search", "ChatCompletion.create",
                       "setex", "add_task"} : Count(r, op) <= 1
        /\ Called(r, "delete") => (Called(r, "get") /\ ReadUnparseable(r))
        /\ \A i \in 1..(Len(trace[r]) - 1) : ~(trace[r][i] \in failed[r] \cap StageOps)

C18_Witness ==
    \E r \in Slots :
        /\ pc[r] = "done"
        /\ trace[r] = << "get_redis", "get", "delete", "QdrantClient", "Embedding.create", "search",
                         "ChatCompletion.create", "setex", "HistorySaver", "add_task" >>

Outcomes == {"ok", "HTTPException", "unhandled"}

\* C19: every request that has begun reaches its end; at its end it has one outcome, a
\* response body or an error, and the outcome, once there, is not replaced.
C19_TerminalReached ==
    /\ \A r \in Server : (pc[r] # "idle") ~> (pc[r] = "done")
    /\ [](\A r \in Slots :
             /\ pc[r] = "done" => result[r].kind \in Outcomes
             /\ result[r].kind \in Outcomes => pc[r] = "done"
             /\ result[r].kind = "ok" <=> (pc[r] = "done" /\ failed[r] \cap StageOps = {}))
    /\ [][\A r \in Slots : result[r].kind \in Outcomes =>
                (result'[r] = result[r] \/ pc'[r] = "idle")]_vars

C19_Witness ==
    \E r \in Slots :
        /\ pc[r] = "done" /\ result[r].kind = "HTTPException"
        /\ {"get", "Embedding.create", "ChatCompletion.create"} \subseteq failed[r]

-----------------------------------------------------------------------------
(* Concurrent requests *)

\* The step is a setex of process r that the store accepted
SetexBy(r) == ~setexArg[r].called /\ setexArg'[r].called /\ "setex" \notin failed'[r]

\* C20: every setex leaves its own bundle under the key, whatever another request wrote
\* there before, and between two setex calls the entry keeps its value: of two requests
\* that both write, the one whose setex comes last leaves the entry.
C20_LastWriteWins ==
    [][ /\ \A r \in Slots :
              SetexBy(r) => /\ store'[Key(r)].val = setexArg'[r].value
                            /\ store'[Key(r)].val = json_dumps(Body(r))
                            /\ store'[Key(r)].present
        /\ \A k \in Keys :
              (store'[k].val # store[k].val \/ store'[k].present # store[k].present)
                  => \E r \in Slots : SetexBy(r) /\ Key(r) = k ]_vars

\* Both requests missed the cache, both ran search and completion, both wrote, and the
\* entry is the bundle of the second, written over that of the first.
C20_Witness ==
    /\ \A r \in Slots :
           /\ pc[r] = "done" /\ req[r] = SameAsk
           /\ ~cached[r].present
           /\ Called(r, "get") /\ Called(r, "search") /\ Called(r, "ChatCompletion.create")
           /\ setexArg[r].called /\ result[r].kind = "ok"
    /\ setexArg[1].value # setexArg[2].value
    /\ store[Key(1)].val = setexArg[2].value

-----------------------------------------------------------------------------
(* The cache key *)

\* C27: the key is prefix, collection name and the first 8 hex digits of the question's
\* sha256, joined by colons; two requests with the same question and collection use the
\* same key whatever their top_k and use_cache; two requests with different collections
\* use different keys.
C27_CacheKeyFunction ==
    kp.key1 # "" =>
        /\ kp.key1 = "ask:" \o kp.first.collection_name \o ":" \o
                      (IF kp.first.question = "What is X?" THEN "b1a0c3c4" ELSE "f513b136")
        /\ (kp.first.question = kp.second.question
             /\ kp.first.collection_name = kp.second.collection_name) => kp.key1 = kp.key2
        /\ kp.first.collection_name # kp.second.collection_name => kp.key1 # kp.key2

C27_Witness ==
    /\ kp.key1 = "ask:docs:b1a0c3c4" /\ kp.key2 = kp.key1
    /\ kp.first.top_k # kp.second.top_k /\ kp.first.use_cache # kp.second.use_cache

-----------------------------------------------------------------------------
(* The cache switch, the embedding fallback, the writes after the completion *)

\* C24: a request with use_cache=false calls neither get, nor delete, nor setex; none of
\* its steps changes the cache store; and it runs the miss path (vector-store client
\* first) whatever the store holds under its key.
C24_CacheBypass ==
    [][ \A r \in Slots :
          (req'[r] # NoReq /\ ~req'[r].use_cache) =>
              /\ ~\E i \in 1..Len(trace'[r]) : trace'[r][i] \in {"get", "delete", "setex"}
              /\ cached'[r] = Absent /\ ~setexArg'[r].called
              /\ pc'[r] \notin {"cache_check", "cache_delete"}
              /\ pc'[r] # "clients" => trace'[r][Len(trace'[r])] # "get_redis"
              /\ (pc'[r] # pc[r] \/ trace'[r] # trace[r]) => store' = store ]_vars

C24_Witness ==
    \E r \in Slots :
        /\ pc[r] = "done" /\ ~req[r].use_cache /\ redis_client[r]
        /\ store[Key(r)].present /\ json_loads(store[Key(r)].val).ok
        /\ result[r].kind = "ok" /\ result[r].body # json_loads(store[Key(r)].val).obj
        /\ Called(r, "QdrantClient") /\ Called(r, "ChatCompletion.create")

\* C26: a request whose remote embedding call raised, or that had no embedding backend to
\* call, searches with the vector of 384 components len(question)/100 each: it goes on to
\* the search, and the embedding step ends no request.
C26_EmbeddingFallback ==
    \A r \in Slots :
        ( \/ "Embedding.create" \in failed[r]
          \/ /\ Called(r, "QdrantClient") /\ "QdrantClient" \notin failed[r]
             /\ pc[r] # "embed" /\ ~Called(r, "Embedding.create") ) =>
            /\ query_embedding[r] =
                   [kind |-> "fallback", dim |-> 384, num |-> Len(req[r].question)]
            /\ pc[r] = "search" \/ Called(r, "search")
            /\ pc[r] = "search" => result[r] = NoResult

C26_Witness ==
    \E r \in Slots :
        /\ pc[r] = "done" /\ "Embedding.create" \in failed[r]
        /\ result[r].kind = "ok" /\ query_embedding[r].kind = "fallback"
        /\ Len(result[r].body.sources) = 2

\* C29: a request calls setex, builds the history saver or enqueues a history write only
\* after its own completion call returned; a request that returned a cached value, or
\* that ended at the vector-store client, the search or the completion, has called no
\* setex and has enqueued no history write.
C29_WritesFollowCompletion ==
    \A r \in Slots :
        /\ ( \/ setexArg[r].called \/ Called(r, "setex")
             \/ Called(r, "HistorySaver") \/ Called(r, "add_task")
             \/ bg[r] # <<>> \/ lastSave[r].fn # "none" ) =>
               /\ Called(r, "ChatCompletion.create")
               /\ "ChatCompletion.create" \notin failed[r]
               /\ answer[r] = FreshAnswer(req[r])
        /\ (pc[r] = "done" /\ (ReadParseable(r) \/ failed[r] \cap StageOps # {})) =>
               /\ ~setexArg[r].called /\ ~Called(r, "setex")
               /\ ~Called(r, "HistorySaver") /\ ~Called(r, "add_task")
               /\ bg[r] = <<>> /\ lastSave[r].fn = "none"

C29_Witness ==
    \E r \in Slots :
        /\ pc[r] = "done" /\ "ChatCompletion.create" \in failed[r]
        /\ req[r].use_cache /\ redis_client[r] /\ HasSetex(gateway)
        /\ Called(r, "search") /\ ~Called(r, "setex") /\ bg[r] = <<>>

-----------------------------------------------------------------------------
(* Uploads and background tasks *)

\* C21: a history write runs only for a request whose response is there, and an
\* ingestion starts and advances only when the upload's response is there; whatever
\* the step of the task does, failing included, the response stays as it was.
C21_DeferredAfterResponse ==
    [][ /\ \A r \in Slots :
              (lastSave'[r] # lastSave[r] /\ lastSave'[r].fn # "none") =>
                  /\ result[r].kind = "ok"
                  /\ result'[r] = result[r]
        /\ (ing' # ing /\ ing'.pc # "idle") =>
              /\ doc.result.kind = "ok" /\ doc.result.status = 200
              /\ doc'.result = doc.result ]_vars

C21_Witness ==
    /\ ing.pc = "raised" /\ ing.error = "embed"
    /\ doc.pc = "responded" /\ doc.result.kind = "ok"
    /\ Len(table) = 1

\* C22: an upload whose files were saved is answered {status: ok, saved}, and has one
\* ingestion task, of that saved list, when Ingestor() and add_task did not raise, and
\* none when one of them did; an upload whose saving failed is answered 500 and has no task.
C22_DocumentsScheduling ==
    /\ (doc.pc = "responded" /\ doc.failed \cap {"FileSaver", "save_all"} = {}) =>
           /\ doc.result = [kind |-> "ok", status |-> 200, detail |-> "",
                             body |-> [status |-> "ok", saved |-> doc.saved]]
           /\ Len(doc.saved) = Cardinality({ i \in 1..Len(doc.form) : doc.form[i].upload })
           /\ doc.tasks = IF doc.failed = {} THEN << doc.saved >> ELSE <<>>
           /\ ing.pc # "idle" => (doc.failed = {} /\ ing.saved_files = doc.saved)
    /\ (doc.pc = "responded" /\ doc.failed \cap {"FileSaver", "save_all"} # {}) =>
           /\ doc.result.kind = "HTTPException" /\ doc.result.status = 500
           /\ doc.result.detail = "Failed to save files"
           /\ doc.tasks = <<>> /\ ing.pc = "idle"

C22_Witness ==
    /\ doc.pc = "responded" /\ "Ingestor" \in doc.failed
    /\ doc.result.kind = "ok" /\ Len(doc.result.body.saved) = 2
    /\ doc.result.body.saved[2].filename = "file-2"
    /\ doc.tasks = <<>>

\* C23: every upsert of an ingestion is issued against a collection that exists.
C23_UpsertIntoExisting ==
    [][ Len(ing'.upserts) > Len(ing.upserts) => "default" \in qdrant ]_vars

-----------------------------------------------------------------------------
(* Retrieval order *)

\* C28: for the hits h1..hn of the search, the response's sources are n, the i-th the
\* filename of hi, else its source, else its id; the prompt is the preamble, then n
\* passages 'Source i:' with the text (else the content) of hi, then 'Question: ' with
\* the question and 'Answer:'; with no hit the completion is called all the same, on
\* a prompt without passages, and the sources are empty.
C28_RetrievalOrder ==
    \A r \in Slots :
        (pc[r] = "done" /\ Called(r, "search") /\ result[r].kind = "ok") =>
            LET hs == hits[r]
                n == Len(hs)
                out == result[r].body.sources
                prompt == build_prompt(req[r].question, contexts(hs))
            IN  /\ n = IF req[r].top_k < 3 THEN req[r].top_k ELSE 3
                /\ \A i \in 1..n : hs[i].id = NumText(i)
                /\ Len(out) = n
                /\ \A i \in 1..n :
                      out[i] = IF hs[i].payload.filename # "" THEN hs[i].payload.filename
                               ELSE IF hs[i].payload.source # "" THEN hs[i].payload.source
                               ELSE hs[i].id
                /\ Len(prompt) = 2 * n + 3
                /\ prompt[1] = Preamble
                /\ \A i \in 1..n :
                      /\ prompt[2 * i] = "Source " \o NumText(i) \o ":"
                      /\ prompt[2 * i + 1] = IF hs[i].payload.text # "" THEN hs[i].payload.text
                                             ELSE hs[i].payload.content
                /\ prompt[2 * n + 2] = "Question: " \o req[r].question
                /\ prompt[2 * n + 3] = "Answer:"
                /\ Called(r, "ChatCompletion.create")
                /\ answer[r] = Completion(prompt)

C28_Witness ==
    \E r \in Slots :
        /\ pc[r] = "done" /\ result[r].kind = "ok"
        /\ result[r].body.sources = << "a.txt", "2", "notes" >>
        /\ build_prompt(req[r].question, contexts(hits[r])) =
               << Preamble, "Source 1:", "Context about X", "Source 2:", "More context about X",
                  "Source 3:", "Third", "Question: What is X?", "Answer:" >>

-----------------------------------------------------------------------------
(* Vector queries *)

\* C25: a vector query that supplies neither query_texts nor query_embeddings is answered
\* 400 with no call made on the vector store (no client, no get_or_create_collection, no
\* query) and with the collections as they were.
C25_ValidationFirst ==
    (vq.pc = "done" /\ vq.request.query_texts.none /\ vq.request.query_embeddings.none) =>
        /\ vq.result.kind = "HTTPException" /\ vq.result.status = 400
        /\ vq.calls = <<>>
        /\ vq.collections = vq.before

-----------------------------------------------------------------------------
(* Self-healing of the cache under concurrency *)

\* C30: the delete of a request that read an unparseable value removes no parseable
\* bundle: the entry it removes, if there is one, is one that json.loads rejects.
C30_DeleteOnlyCorrupt ==
    [][ \A r \in Slots :
          ( /\ pc[r] = "cache_delete" /\ pc'[r] = "clients"
            /\ store[Key(r)].present /\ ~store'[Key(r)].present )
          => ~json_loads(store[Key(r)].val).ok ]_vars

-----------------------------------------------------------------------------
(* The singleton clients under concurrent first calls *)

\* C31: whatever the interleaving of the threads that call RedisClient(), one object
\* at most and one connection at most are ever made, and every thread that gets an
\* instance gets the same one.
C31_RedisSingleInstance ==
    sng.cls = "RedisClient" =>
        /\ sng.made <= 1 /\ sng.conns <= 1
        /\ \A t \in 1..MaxThreads :
              sng.th[t].pc \in {"returned", "used"} =>
                  (sng.th[t].got = sng.instance /\ sng.th[t].got = 1)

C31_Witness ==
    /\ sng.cls = "RedisClient" /\ sng.conns = 1
    /\ \A t \in 1..MaxThreads : sng.th[t].pc = "used" /\ sng.th[t].got = 1 /\ sng.th[t].ok

\* C32: every instance RedisClient() returns has its client attribute set when it is
\* returned, and the call made on it right after does not fail for lack of a client.
C32_RedisNeverPartial ==
    sng.cls = "RedisClient" =>
        \A t \in 1..MaxThreads :
            /\ sng.th[t].pc \in {"returned", "used"} => sng.th[t].ready
            /\ sng.th[t].pc = "used" => sng.th[t].ok

\* C33: of the threads that call get_chromadb() together, one makes the ChromaDBClient
\* and its HttpClient, no other makes a second, and every caller gets an instance that
\* has its client attribute set.
C33_ChromaSingleton ==
    sng.cls = "ChromaDBClient" =>
        /\ sng.made <= 1 /\ sng.conns <= 1
        /\ \A t \in 1..MaxThreads :
              sng.th[t].pc \in {"returned", "used"} =>
                  (sng.made = 1 /\ sng.conns = 1 /\ sng.th[t].got = 1 /\ sng.th[t].ready)

-----------------------------------------------------------------------------
(* The sessions of the history sink *)

\* C34: a call of save or save_async that opened a session calls close on it once, and a
\* call that opened none calls no close; whichever of add, commit and rollback fail, the
\* session is opened, closed once, and no exception leaves _save_sync, so that no
\* session is open when the call returns (close() itself performing).
C34_SessionClosedOnce ==
    \A r \in Slots :
        lastSave[r].fn # "none" =>
            /\ lastSave[r].opened <= 1
            /\ lastSave[r].closes = lastSave[r].opened
            /\ lastSave[r].closed <= lastSave[r].closes
            /\ \A F \in SUBSET {"add", "commit", "rollback"} :
                  LET out == _save_sync(table, lastSave[r].args, F)
                  IN  out.opened = 1 /\ out.closes = 1 /\ out.closed = 1 /\ ~out.raised

C34_Witness ==
    \E r \in Slots :
        /\ lastSave[r].fn = "save_async" /\ lastSave[r].opened = 1
        /\ lastSave[r].commits = 1 /\ lastSave[r].rollbacks = 1
        /\ lastSave[r].closes = 1 /\ lastSave[r].closed = 1
        /\ Len(table) = lastSave[r].rows

====
